---- MODULE Spec2Model ----
(***************************************************************************)
(* Model of the swap-bundle assembly pipeline of the BeraBundle Safe App.  *)
(*                                                                         *)
(*   SwapBundleService.prepareBundleTransactions  (services/SwapBundle-    *)
(*       Service.ts): filter, fan out getSwapQuote, Promise.all, build     *)
(*       approve + swap transactions, totals.                              *)
(*   TokenBridgeService.createSwapBundle (services/TokenBridgeService.js)  *)
(*       and its caller BeraSwapApp.handleSwap (App.js).                   *)
(*                                                                         *)
(* The repository holds two entry components.  App.tsx with the SwapForm   *)
(* component uses SwapBundleService only; App.js uses TokenBridgeService   *)
(* only.  A run of the program is a run of one of them (variable app).     *)
(* One call of the service is followed at a time: a call keeps all of its  *)
(* data in locals, and the next call starts once the finished one has been *)
(* dropped.                                                                *)
(*                                                                         *)
(* JavaScript scheduling: a settled promise's reactions run as microtasks, *)
(* before any other network response is delivered. An action therefore is  *)
(* one delivered event (a call, or one request settling) together with all *)
(* the code that runs from it up to the next network wait.                 *)
(***************************************************************************)
EXTENDS Integers, Sequences, FiniteSets, TLC

\* Longest selection list handed to a call.
MaxSel == 2

-----------------------------------------------------------------------------
(* Decimal strings.  A JavaScript numeric string "-12.50" is kept as its     *)
(* sign, whole part and the sequence of its fractional digits; nan marks a   *)
(* value that is no decimal string (undefined, "").                          *)

Dec(n, w, f) == [nan |-> FALSE, neg |-> n, whole |-> w, frac |-> f]
NotANumber == [nan |-> TRUE, neg |-> FALSE, whole |-> 0, frac |-> <<>>]

RECURSIVE Pow10(_)
Pow10(d) == IF d = 0 THEN 1 ELSE 10 * Pow10(d - 1)

\* parseFloat(amount) > 0   (NaN > 0 is false)
ParseFloatPositive(s) ==
    /\ ~s.nan
    /\ ~s.neg
    /\ (s.whole > 0 \/ \E i \in DOMAIN s.frac : s.frac[i] # 0)

\* ethers parseUnits(value, decimals) throws on a value that is no decimal
\* string and on non-zero digits beyond `decimals` fractional places.
ParseUnitsThrows(s, d) ==
    \/ s.nan
    \/ \E i \in DOMAIN s.frac : i > d /\ s.frac[i] # 0

RECURSIVE FracUnits(_, _, _)
FracUnits(f, d, i) ==
    IF i > d \/ i > Len(f) THEN 0
    ELSE f[i] * Pow10(d - i) + FracUnits(f, d, i + 1)

\* ethers parseUnits(value, decimals): the value in smallest units.
ParseUnits(s, d) ==
    LET mag == s.whole * Pow10(d) + FracUnits(s.frac, d, 1)
    IN  IF s.neg THEN 0 - mag ELSE mag

RECURSIVE Digits(_, _)
\* the d decimal digits of r (r < 10^d), most significant first
Digits(r, d) ==
    IF d = 0 THEN <<>>
    ELSE <<r \div Pow10(d - 1)>> \o Digits(r % Pow10(d - 1), d - 1)

RECURSIVE TrimZeros(_)
\* trailing zeros are trimmed, leaving at least one digit
TrimZeros(f) ==
    IF Len(f) > 1 /\ f[Len(f)] = 0 THEN TrimZeros(SubSeq(f, 1, Len(f) - 1))
    ELSE f

\* ethers formatUnits(value, decimals) for value >= 0: "whole.frac", no
\* decimal point when decimals = 0.
FormatUnits(n, d) ==
    IF d = 0 THEN Dec(FALSE, n, <<>>)
    ELSE Dec(FALSE, n \div Pow10(d), TrimZeros(Digits(n % Pow10(d), d)))

-----------------------------------------------------------------------------
(* Tokens, selections and routing-service answers the calls are tried on.   *)

Token(sym, addr, dec, hasPrice, price, native) ==
    [symbol |-> sym, address |-> addr, decimals |-> dec,
     hasPrice |-> hasPrice, priceUsd |-> price, isNative |-> native]

BERA == Token("BERA", "native", 2, TRUE, 3, TRUE)
HONEY == Token("HONEY", "0xHONEY", 2, TRUE, 1, FALSE)
WBTC == Token("WBTC", "0xWBTC", 1, FALSE, 0, FALSE)

SourceTokens == {BERA, HONEY, WBTC}

\* a token the token list gives the symbol BERA at a contract address: its
\* isNative (address === 0x00...00) is false
BeraAtAddress == Token("BERA", "0xBERA", 2, TRUE, 3, FALSE)
TargetTokens == {HONEY, WBTC}

\* "0", "-1", "1", "1.25"
Amounts == {Dec(FALSE, 0, <<>>), Dec(TRUE, 1, <<>>),
            Dec(FALSE, 1, <<>>), Dec(FALSE, 1, <<2, 5>>)}

\* TokenAmount (types.ts)
TokenAmounts == [token : SourceTokens, amount : Amounts]

RECURSIVE SeqsUpTo(_, _)
SeqsUpTo(S, n) ==
    IF n = 0 THEN {<<>>}
    ELSE LET shorter == SeqsUpTo(S, n - 1)
         IN  shorter \cup {Append(s, x) : s \in {t \in shorter : Len(t) = n - 1}, x \in S}

\* the selection lists a call is tried on
Selections == SeqsUpTo(TokenAmounts, MaxSel)

\* the selection lists of the native asset and that token, with valid amounts
NativeSelections ==
    SeqsUpTo([token : {BERA, BeraAtAddress},
              amount : {Dec(FALSE, 1, <<>>), Dec(FALSE, 1, <<2, 5>>)}], MaxSel)

-----------------------------------------------------------------------------
(* Transactions.  The code's objects are {to, value, data}.  `data` is kept  *)
(* as what it encodes: approve(spender, amount) or the router's opaque       *)
(* payload.  An approved amount is either an exact count of smallest units   *)
(* or ethers.constants.MaxUint256 (2^256 - 1, above every amount of the      *)
(* model), kept as the flag `max`.  `entry` is bookkeeping the code's object *)
(* does not carry: the position, in the call's input list, of the selection  *)
(* the transaction was built for.                                            *)

ExactAmount(units) == [max |-> FALSE, units |-> units]
MaxUint256 == [max |-> TRUE, units |-> 0]

\* erc20Interface.encodeFunctionData('approve', [spender, amount])
ApproveData(spender, amt) == [fn |-> "approve", spender |-> spender, amount |-> amt, payload |-> ""]
\* calldata taken from the routing service as is ("" when the field is missing)
RawData(payload) == [fn |-> "raw", spender |-> "", amount |-> ExactAmount(0), payload |-> payload]

Tx(to, value, data, entry) == [to |-> to, value |-> value, data |-> data, entry |-> entry]

IsGrant(tx) == tx.data.fn = "approve"
IsSwap(tx) == tx.data.fn = "raw"

-----------------------------------------------------------------------------
(* Routing-service answers to SwapBundleService.getSwapQuote's fetch.        *)
(*   neterr : fetch rejects;  http : response.ok is false;                   *)
(*   ok     : response.json() is `data` ("" / NotANumber: field missing).    *)

QuoteData(router, calldata, out) ==
    [routerAddress |-> router, calldata |-> calldata, outputAmount |-> out]
NoQuote == QuoteData("", "", NotANumber)

Response(kind, data) ==
    [kind |-> kind, data |-> data, status |-> IF kind = "ok" THEN 200 ELSE 0, text |-> ""]

\* an answer with a non-success status: response.status and response.text()
HttpError(data, status, text) ==
    [kind |-> "http", data |-> data, status |-> status, text |-> text]

SwapResponses ==
    { Response("neterr", NoQuote),
      HttpError(NoQuote, 500, "internal error"),
      HttpError(NoQuote, 429, "rate limited"),
      Response("ok", QuoteData("0xRouterA", "0xcafe", Dec(FALSE, 100, <<>>))),
      Response("ok", QuoteData("0xRouterB", "0xbeef", Dec(FALSE, 1, <<2, 5>>))),
      Response("ok", QuoteData("", "0xf00d", Dec(FALSE, 7, <<>>))) }

\* API keys a caller may pass ("" is undefined / empty)
ApiKeys == {"", "key1"}

-----------------------------------------------------------------------------
VARIABLES
    app,             \* the entry component that runs: "ts" (App.tsx) or "js" (App.js)
    firstCall,       \* an earlier prepareBundleTransactions call, remembered whole
    localStorage,    \* the browser's localStorage item config.api.apiKeyStorageKey ("": none)
    sbsSdk,          \* SwapBundleService.sdk is set (non-null)
    sbsApiKey,       \* SwapBundleService.apiKey ("" is null)
    pc,              \* prepareBundleTransactions: "idle", "awaiting", "returned"
    selectedTokens,  \* its argument selectedTokens
    targetToken,     \* its argument targetToken
    validTokens,     \* its local validTokens, each with its position in selectedTokens
    swapQuotes,      \* the getSwapQuote promises, one per element of validTokens
    fetchCount,      \* fetch() calls made by this call's getSwapQuote runs
    result,          \* the value the call returned
    caller,          \* the SwapForm function that made the call
    formPc,          \* that function: "idle", "awaiting", "sending", "done"
    loading,         \* SwapForm state loading
    formError,       \* SwapForm state error ("" is null)
    swapQuote,       \* SwapForm state swapQuote
    sentTxs,         \* the txs SwapForm.handleSwap passed to sdk.txs.send
    formSendCount,   \* sdk.txs.send calls made by this SwapForm.handleSwap
    tbsApiKey,       \* TokenBridgeService.apiKey ("" is null / empty)
    hsPc,            \* BeraSwapApp.handleSwap: "idle", "awaiting", "sending", "done"
    swapData,        \* its argument swapData (createSwapBundle's tokensToSwap)
    bundleTarget,    \* bundleOptions.targetToken
    tokensToProcess, \* createSwapBundle's local, each token with its position in swapData
    apiCalls,        \* createSwapBundle's apiCallPromises
    bundle,          \* the value createSwapBundle returned
    safeTxs,         \* handleSwap's safeTxs, as passed to sdk.txs.send
    sendCount,       \* sdk.txs.send calls made by this handleSwap
    swapStatus,      \* React state swapStatus
    now,             \* Date.now(), in ticks
    priceCache,      \* TokenBridgeService.priceCache: address -> { price, timestamp }
    priceCalls,      \* the getTokenPrice calls made, in the order of their start
    appApiKey,       \* App.tsx: the apiKey state ("": null or empty)
    appSelectedTokens, \* App.tsx, App.js: the selectedTokens state
    formTargetToken, \* SwapForm: the targetToken state
    runs             \* SwapForm: its generateSwapQuote and handleSwap runs in flight

sbsVars == <<sbsSdk, sbsApiKey, pc, selectedTokens, targetToken, validTokens,
             swapQuotes, fetchCount, result>>

tbsVars == <<tbsApiKey, hsPc, swapData, bundleTarget, tokensToProcess, apiCalls,
             bundle, safeTxs, sendCount, swapStatus>>

formVars == <<caller, formPc, loading, formError, swapQuote, sentTxs, formSendCount>>

priceVars == <<now, priceCache, priceCalls>>

uiVars == <<appApiKey, appSelectedTokens, formTargetToken, runs>>

vars == <<app, firstCall, localStorage, uiVars, sbsVars, formVars, tbsVars, priceVars>>

-----------------------------------------------------------------------------
(* SwapBundleService                                                         *)

\* Digits kept of a JavaScript number: totalValueUsd is held in units of
\* 10^-FloatDigits, exact for every amount and price of the model.
FloatDigits == 2

\* parseFloat(amount), in units of 10^-FloatDigits
ParseFloat(s) == IF s.nan THEN 0 ELSE ParseUnits(s, FloatDigits)

NoResult ==
    [success |-> FALSE, hasTxs |-> FALSE, txs |-> <<>>, totalValueUsd |-> 0,
     estimatedOutput |-> NotANumber, error |-> ""]

\* { success: false, error }
ErrorResult(msg) == [NoResult EXCEPT !.error = msg]

\* { success: true, txs, totalValueUsd, estimatedOutput }
SuccessResult(txs, usd, out) ==
    [success |-> TRUE, hasTxs |-> TRUE, txs |-> txs, totalValueUsd |-> usd,
     estimatedOutput |-> out, error |-> ""]

\* mutant: the filter keeps zero amounts (>= 0 for > 0)
IsValidAmount_NonNegative(amount) == ~amount.nan /\ ~amount.neg

\* the predicate of selectedTokens.filter(...)
IsValidAmount(amount) == ParseFloatPositive(amount)

RECURSIVE FilterValid(_, _)
\* selectedTokens.filter(({ amount }) => parseFloat(amount) > 0), from position i on
FilterValid(sel, i) ==
    IF i > Len(sel) THEN <<>>
    ELSE (IF IsValidAmount(sel[i].amount)
          THEN <<[entry |-> i, token |-> sel[i].token, amount |-> sel[i].amount]>>
          ELSE <<>>) \o FilterValid(sel, i + 1)

\* getSwapQuote's isNative
QuoteIsNative(inputToken) == inputToken.isNative \/ inputToken.symbol = "BERA"

\* getSwapQuote up to its first await: the promise it returns and the request
\* it has sent (requests: the fetch calls this getSwapQuote has made).
\* parseUnits throwing rejects the promise before any fetch.
GetSwapQuote(inputToken, amount, outputToken, apiKey) ==
    IF ParseUnitsThrows(amount, inputToken.decimals)
    THEN [state |-> "rejected", sent |-> FALSE, requests |-> 0, bearer |-> "", tokenIn |-> "",
          tokenOut |-> "", amount |-> 0, quote |-> NoQuote, error |-> "invalid amount",
          errorStatus |-> 0, errorText |-> ""]
    ELSE [state |-> "pending", sent |-> TRUE, requests |-> 1, bearer |-> apiKey,
          tokenIn |-> IF QuoteIsNative(inputToken) THEN "native" ELSE inputToken.address,
          tokenOut |-> outputToken.address,
          amount |-> ParseUnits(amount, inputToken.decimals),
          quote |-> NoQuote, error |-> "", errorStatus |-> 0, errorText |-> ""]

\* mutant: the error of a non-success answer leaves out the body text
UpstreamError_NoBody(resp) ==
    [message |-> "API request failed", status |-> resp.status, text |-> ""]

\* new Error(`API request failed: ${response.status} ${errorText}`), kept as
\* the parts of its message
UpstreamError(resp) ==
    [message |-> "API request failed", status |-> resp.status, text |-> resp.text]

\* the promise rejected with err
Rejected(promise, err) ==
    [promise EXCEPT !.state = "rejected", !.error = err.message,
                    !.errorStatus = err.status, !.errorText = err.text]

\* mutant: a failed fetch is issued once more
GetSwapQuoteSettled_Retry(promise, resp) ==
    IF resp.kind = "neterr" /\ promise.requests < 2 THEN [promise EXCEPT !.requests = @ + 1]
    ELSE IF resp.kind = "neterr" THEN [promise EXCEPT !.state = "rejected", !.error = "fetch failed"]
    ELSE IF resp.kind = "http" THEN Rejected(promise, UpstreamError(resp))
    ELSE [promise EXCEPT !.state = "fulfilled", !.quote = resp.data]

\* getSwapQuote after its fetch has settled with `resp`: it returns the quote
\* or rethrows, and makes no further request
GetSwapQuoteSettled(promise, resp) ==
    IF resp.kind = "neterr" THEN [promise EXCEPT !.state = "rejected", !.error = "fetch failed"]
    ELSE IF resp.kind = "http" THEN Rejected(promise, UpstreamError(resp))
    ELSE [promise EXCEPT !.state = "fulfilled", !.quote = resp.data]

\* Promise.all(promises): rejected as soon as one input is rejected,
\* fulfilled once every input is fulfilled
PromiseAll(promises) ==
    IF \E i \in DOMAIN promises : promises[i].state = "rejected" THEN "rejected"
    ELSE IF \A i \in DOMAIN promises : promises[i].state = "fulfilled" THEN "fulfilled"
    ELSE "pending"

\* the rejection reason Promise.all passes on: that of the input rejected first.
\* (Inputs rejected in one step are rejected in index order.)
FirstRejection(promises) ==
    LET i == CHOOSE k \in DOMAIN promises :
                 /\ promises[k].state = "rejected"
                 /\ \A j \in DOMAIN promises : promises[j].state = "rejected" => k <= j
    IN  promises[i].error

\* encodeFunctionData('approve', ...) throws on a spender that is no address
CreateApprovalThrows(token, spender, amount) ==
    ParseUnitsThrows(amount, token.decimals) \/ spender = ""

\* the amount createApprovalTransaction approves
ApprovalAmount(token, amount) == ExactAmount(ParseUnits(amount, token.decimals))

\* createApprovalTransaction(token, spender, amount, owner)
CreateApprovalTransaction(token, spender, amount, entry) ==
    Tx(token.address, 0, ApproveData(spender, ApprovalAmount(token, amount)), entry)

\* mutant: the native value is left out of the swap transaction
SwapValue_Zero(token, amount) == 0

\* the value of the swap transaction
SwapValue(token, amount) ==
    IF token.isNative THEN ParseUnits(amount, token.decimals) ELSE 0

\* mutant: an approval is added for the native asset too
NeedsApproval_Always(token) == TRUE

\* mutant: the approval is left out once an earlier call has built it
NeedsApproval_FirstCallOnly(token) == ~token.isNative /\ ~firstCall.set

\* whether the loop adds an approval transaction for the token
NeedsApproval(token) == ~token.isNative

\* the transactions the loop body pushes for one token, in push order
TokenTransactions(v, quote) ==
    (IF NeedsApproval(v.token)
     THEN <<CreateApprovalTransaction(v.token, quote.routerAddress, v.amount, v.entry)>>
     ELSE <<>>)
    \o <<Tx(quote.routerAddress, SwapValue(v.token, v.amount), RawData(quote.calldata), v.entry)>>

\* mutant: a token without price is valued at 1 a unit
ValueUsd_DefaultPrice(token, amount) ==
    IF token.hasPrice /\ token.priceUsd # 0 THEN ParseFloat(amount) * token.priceUsd
    ELSE ParseFloat(amount)

\* what "if (token.priceUsd) totalValueUsd += parseFloat(amount) * token.priceUsd"
\* adds for one token
ValueUsd(token, amount) ==
    IF token.hasPrice /\ token.priceUsd # 0 THEN ParseFloat(amount) * token.priceUsd ELSE 0

RECURSIVE ProcessSwaps(_, _, _, _, _)
\* the loop "for (let i = 0; i < validTokens.length; i++)"; acc.threw: an
\* exception left the loop
ProcessSwaps(i, valid, quotes, target, acc) ==
    IF i > Len(valid) \/ acc.threw THEN acc
    ELSE LET token == valid[i].token
             amount == valid[i].amount
             quote == quotes[i].quote
             usd == acc.totalValueUsd + ValueUsd(token, amount)
         IN  IF ParseUnitsThrows(quote.outputAmount, target.decimals)
             THEN [acc EXCEPT !.threw = TRUE, !.error = "invalid output amount"]
             ELSE IF NeedsApproval(token) /\ CreateApprovalThrows(token, quote.routerAddress, amount)
             THEN [acc EXCEPT !.threw = TRUE, !.error = "invalid approval"]
             ELSE ProcessSwaps(i + 1, valid, quotes, target,
                     [acc EXCEPT
                        !.totalValueUsd = usd,
                        !.totalEstimatedOutput = @ + ParseUnits(quote.outputAmount, target.decimals),
                        !.transactions = @ \o TokenTransactions(valid[i], quote)])

\* the code after "await Promise.all(...)" once every quote is there
BuildBundle(valid, quotes, target) ==
    LET acc == ProcessSwaps(1, valid, quotes, target,
                   [transactions |-> <<>>, totalValueUsd |-> 0,
                    totalEstimatedOutput |-> 0, threw |-> FALSE, error |-> ""])
    IN  IF acc.threw THEN ErrorResult(acc.error)
        ELSE SuccessResult(acc.transactions, acc.totalValueUsd,
                           FormatUnits(acc.totalEstimatedOutput, target.decimals))

\* what prepareBundleTransactions does when its await settles
AfterAwait(valid, quotes, target) ==
    IF PromiseAll(quotes) = "rejected" THEN ErrorResult(FirstRejection(quotes))
    ELSE BuildBundle(valid, quotes, target)

\* the number of elements of seq that satisfy sent
CountSent(promises) == Cardinality({i \in DOMAIN promises : promises[i].sent})

\* mutant: the quotes are fetched one after the other, the first one first
StartQuotes_FirstOnly(valid, target, apiKey) ==
    [i \in 1..Len(valid) |->
        IF i = 1 THEN GetSwapQuote(valid[i].token, valid[i].amount, target, apiKey)
        ELSE [GetSwapQuote(valid[i].token, valid[i].amount, target, apiKey)
                 EXCEPT !.sent = FALSE, !.requests = 0]]

\* validTokens.map(({ token, amount }) => this.getSwapQuote(...)): every
\* getSwapQuote runs to its fetch before the await on Promise.all
StartQuotes(valid, target, apiKey) ==
    [i \in 1..Len(valid) |-> GetSwapQuote(valid[i].token, valid[i].amount, target, apiKey)]

\* mutant: the check for an empty validTokens is missing
NoValidTokens_Unchecked(valid) == FALSE

\* "validTokens.length === 0"
NoValidTokens(valid) == Len(valid) = 0

\* mutant: initialize stores whatever key it is passed
StoredKey_Overwritten(old, apiKey) == apiKey

\* "if (apiKey) { this.apiKey = apiKey; }": the key the service holds after
\* initialize was passed apiKey
StoredKey(old, apiKey) == IF apiKey # "" THEN apiKey ELSE old

\* initialize(sdk, chainId, apiKey); chainId only selects a warning.
\* The fields it writes are read by prepareBundleTransactions before its await
\* only, so an initialize during a call commutes with every later step of the
\* call: it is taken between calls.
SbsInitialize(sdk, apiKey) ==
    /\ app = "ts"
    /\ pc = "idle"
    /\ sbsSdk' = sdk
    /\ sbsApiKey' = StoredKey(sbsApiKey, apiKey)
    /\ UNCHANGED <<pc, selectedTokens, targetToken, validTokens, swapQuotes,
                   fetchCount, result>>
    /\ UNCHANGED <<app, firstCall, localStorage, uiVars, formVars, tbsVars, priceVars>>

\* no call remembered
NoCall == [set |-> FALSE, selectedTokens |-> <<>>, targetToken |-> HONEY,
           quotes |-> <<>>, success |-> FALSE, txs |-> <<>>]

\* what the routing service answered to the requests of a call
QuoteAnswers(promises) ==
    [i \in DOMAIN promises |-> [state |-> promises[i].state, quote |-> promises[i].quote]]

\* the SwapForm function that made the call has ended: nothing of the call is
\* left (a request still outstanding then answers to no one)
SbsCallEnds ==
    /\ app = "ts"
    /\ pc = "returned" /\ formPc = "done"
    /\ pc' = "idle"
    /\ caller' = "none"
    /\ formPc' = "idle"
    /\ sentTxs' = <<>>
    /\ formSendCount' = 0
    /\ UNCHANGED <<loading, formError, swapQuote>>
    /\ selectedTokens' = <<>>
    /\ targetToken' = HONEY
    /\ validTokens' = <<>>
    /\ swapQuotes' = <<>>
    /\ fetchCount' = 0
    /\ result' = NoResult
    /\ UNCHANGED <<sbsSdk, sbsApiKey>>
    /\ UNCHANGED <<app, localStorage, uiVars, tbsVars, priceVars>>

SbsCallDropped == SbsCallEnds /\ UNCHANGED firstCall

\* the same, the call (all its requests answered) being remembered for the
\* comparison with a later one
SbsCallRemembered ==
    /\ ~firstCall.set
    /\ \A i \in DOMAIN swapQuotes : swapQuotes[i].state # "pending"
    /\ SbsCallEnds
    /\ firstCall' = [set |-> TRUE, selectedTokens |-> selectedTokens,
                     targetToken |-> targetToken, quotes |-> QuoteAnswers(swapQuotes),
                     success |-> result.success, txs |-> result.txs]

\* prepareBundleTransactions(selectedTokens, targetToken, ...) up to its await
PrepareBundleTransactions(sel, target) ==
    /\ app = "ts"
    /\ pc = "idle"
    /\ selectedTokens' = sel
    /\ targetToken' = target
    /\ UNCHANGED <<sbsSdk, sbsApiKey>>
    /\ IF ~sbsSdk
       THEN /\ result' = ErrorResult("SwapBundleService not initialized")
            /\ pc' = "returned"
            /\ validTokens' = <<>> /\ swapQuotes' = <<>> /\ fetchCount' = 0
       ELSE IF sbsApiKey = ""
       THEN /\ result' = ErrorResult("API key not set")
            /\ pc' = "returned"
            /\ validTokens' = <<>> /\ swapQuotes' = <<>> /\ fetchCount' = 0
       ELSE LET valid == FilterValid(sel, 1)
                quotes == StartQuotes(valid, target, sbsApiKey)
            IN  /\ validTokens' = valid
                /\ IF NoValidTokens(valid)
                   THEN /\ result' = ErrorResult("No valid swaps to execute")
                        /\ pc' = "returned"
                        /\ swapQuotes' = <<>> /\ fetchCount' = 0
                   ELSE /\ swapQuotes' = quotes
                        /\ fetchCount' = CountSent(quotes)
                        /\ IF PromiseAll(quotes) = "pending"
                           THEN pc' = "awaiting" /\ result' = NoResult
                           ELSE pc' = "returned" /\ result' = AfterAwait(valid, quotes, target)
    /\ UNCHANGED <<app, firstCall, localStorage, uiVars, tbsVars, priceVars>>

\* SwapForm's swapQuote is kept as whether it is set ({ totalValueUsd,
\* estimatedOutput, slippage }) or null: its figures are only displayed
NoSwapQuote == [set |-> FALSE]

\* the value generateSwapQuote stores for the result r
SwapQuoteOf(r) == [set |-> TRUE]

\* generateSwapQuote from its "await prepareBundleTransactions(...)" resumed
\* with r, to its end
GenerateSwapQuoteResumes(r) ==
    /\ IF r.success /\ r.hasTxs
       THEN /\ swapQuote' = SwapQuoteOf(r)
            /\ formError' = ""
       ELSE /\ swapQuote' = NoSwapQuote
            /\ formError' = IF r.error # "" THEN r.error ELSE "Failed to generate swap quote"
    /\ loading' = FALSE
    /\ formPc' = "done"
    /\ UNCHANGED <<sentTxs, formSendCount>>

\* mutant: the approvals are sent first, the swaps in a second call
SendTxs_InTwoCalls(r) ==
    /\ sentTxs' = SelectSeq(r.txs, IsGrant)
    /\ formSendCount' = formSendCount + 2

\* sdk.txs.send({ txs: result.txs })
SendTxs(r) ==
    /\ sentTxs' = r.txs
    /\ formSendCount' = formSendCount + 1

\* SwapForm.handleSwap from its "await prepareBundleTransactions(...)" resumed
\* with r, to "await sdk.txs.send(...)" or to its end
SwapFormHandleSwapResumes(r) ==
    IF r.success /\ r.hasTxs
    THEN /\ SendTxs(r)
         /\ formPc' = "sending"
         /\ loading' = TRUE
         /\ formError' = ""
         /\ UNCHANGED swapQuote
    ELSE /\ formError' = IF r.error # "" THEN r.error ELSE "Failed to prepare transactions"
         /\ loading' = FALSE
         /\ formPc' = "done"
         /\ UNCHANGED <<swapQuote, sentTxs, formSendCount>>

\* the function `who` of SwapForm goes on after its call: with the returned
\* value, or into its wait for it
SwapFormResumes(who) ==
    IF pc' = "returned"
    THEN IF who = "generateSwapQuote" THEN GenerateSwapQuoteResumes(result')
                                      ELSE SwapFormHandleSwapResumes(result')
    ELSE /\ formPc' = "awaiting"
         /\ loading' = TRUE
         /\ formError' = ""
         /\ UNCHANGED <<swapQuote, sentTxs, formSendCount>>

\* SwapForm.generateSwapQuote, as the effect on selectedTokens, targetToken
\* and apiKey runs it
GenerateSwapQuote(sel, target) ==
    /\ app = "ts" /\ formPc = "idle"
    /\ Len(sel) # 0 /\ sbsSdk
    /\ caller' = "generateSwapQuote"
    /\ PrepareBundleTransactions(sel, target)
    /\ SwapFormResumes("generateSwapQuote")

\* the else branch of that effect (no selection or no apiKey): setSwapQuote(null)
SwapQuoteCleared ==
    /\ app = "ts" /\ formPc = "idle" /\ pc = "idle"
    /\ swapQuote.set
    /\ swapQuote' = NoSwapQuote
    /\ UNCHANGED <<caller, formPc, loading, formError, sentTxs, formSendCount>>
    /\ UNCHANGED <<app, firstCall, localStorage, uiVars, sbsVars, tbsVars, priceVars>>

\* SwapForm.handleSwap with the selectedTokens and targetToken of the render
SwapFormHandleSwap(sel, target) ==
    /\ app = "ts" /\ formPc = "idle" /\ pc = "idle"
    /\ IF Len(sel) = 0 \/ ~swapQuote.set
       THEN /\ formError' = "Cannot execute swap without a valid quote"
            /\ UNCHANGED <<caller, formPc, loading, swapQuote, sentTxs, formSendCount>>
            /\ UNCHANGED <<app, firstCall, localStorage, uiVars, sbsVars, tbsVars, priceVars>>
       ELSE /\ caller' = "handleSwap"
            /\ PrepareBundleTransactions(sel, target)
            /\ SwapFormResumes("handleSwap")

\* sdk.txs.send of SwapForm.handleSwap settles: fulfilled (ok) or rejected.
\* (On success onSwap runs App.tsx's handleSwap, whose state is not followed.)
SwapFormSendSettles(ok) ==
    /\ app = "ts" /\ formPc = "sending"
    /\ formPc' = "done"
    /\ loading' = FALSE
    /\ IF ok THEN swapQuote' = NoSwapQuote /\ UNCHANGED formError
             ELSE formError' = "Unknown error executing swap" /\ UNCHANGED swapQuote
    /\ UNCHANGED <<caller, sentTxs, formSendCount>>
    /\ UNCHANGED <<app, firstCall, localStorage, uiVars, sbsVars, tbsVars, priceVars>>

\* the fetch of getSwapQuote number i settles with resp; if the call is still
\* waiting and Promise.all settles with it, the call runs to its return and
\* its caller goes on
QuoteSettles(i, resp) ==
    /\ app = "ts"
    /\ i \in DOMAIN swapQuotes
    /\ swapQuotes[i].state = "pending"
    /\ LET quotes == [swapQuotes EXCEPT ![i] = GetSwapQuoteSettled(@, resp)]
       IN  /\ swapQuotes' = quotes
           /\ IF pc = "awaiting" /\ PromiseAll(quotes) # "pending"
              THEN pc' = "returned" /\ result' = AfterAwait(validTokens, quotes, targetToken)
              ELSE UNCHANGED <<pc, result>>
           /\ fetchCount' = fetchCount + (quotes[i].requests - swapQuotes[i].requests)
    /\ IF pc = "awaiting" /\ pc' = "returned"
       THEN SwapFormResumes(caller) /\ UNCHANGED caller
       ELSE UNCHANGED formVars
    /\ UNCHANGED <<sbsSdk, sbsApiKey, selectedTokens, targetToken, validTokens>>
    /\ UNCHANGED <<app, firstCall, localStorage, uiVars, tbsVars, priceVars>>

-----------------------------------------------------------------------------
(* TokenBridgeService.createSwapBundle and BeraSwapApp.handleSwap            *)

\* "token.decimals || 18" and "targetToken.decimals || 18"
DefaultDecimals == 18

DecimalsOrDefault(token) == IF token.decimals = 0 THEN DefaultDecimals ELSE token.decimals

(* Answers to apiCallWithAuth's fetch of /v1/swap.  ok: the JSON body, with  *)
(* hasTx = FALSE when it has no tx, "" / NotANumber for a missing field;     *)
(* amountOut is assumedAmountOut || expectedAmountOut.                       *)
SwapBody(hasTx, to, data, value, amountOut) ==
    [hasTx |-> hasTx, to |-> to, data |-> data, value |-> value, amountOut |-> amountOut]
NoBody == SwapBody(FALSE, "", "", 0, NotANumber)

BridgeResponses ==
    { Response("neterr", NoBody),
      HttpError(NoBody, 500, "internal error"),
      HttpError(NoBody, 429, "rate limited"),
      Response("ok", SwapBody(TRUE, "0xRouterA", "0xcafe", 0, Dec(FALSE, 100, <<>>))),
      Response("ok", SwapBody(TRUE, "", "0xf00d", 0, Dec(FALSE, 7, <<>>))),
      Response("ok", SwapBody(FALSE, "", "", 0, NotANumber)),
      Response("ok", SwapBody(TRUE, "0xRouterB", "0xbeef", 0, NotANumber)) }

SafeAddresses == {"", "0xSafe"}

NoBundle ==
    [error |-> "", swapTxs |-> <<>>, approvalTxs |-> <<>>, totalExpectedOutput |-> 0]

\* { error, safeAddress, swapTxs: [], approvalTxs: [] }
ErrorBundle(msg) == [NoBundle EXCEPT !.error = msg]

\* mutant: the selection is emptied whether the send succeeded or failed
SelectionAfterSend_Cleared(sel, ok) == <<>>

\* the selectedTokens of the entry application once sdk.txs.send has settled:
\* setSelectedTokens([]) follows the await and is skipped by a rejection
SelectionAfterSend(sel, ok) == IF ok THEN <<>> ELSE sel

InitialSwapStatus == [loading |-> FALSE, success |-> FALSE, error |-> ""]

\* the predicate of tokensToSwap.filter(...)
IsProcessable(token) ==
    ~(token.address = "native" \/ token.symbol = "BERA") /\ token.address # ""

RECURSIVE FilterProcessable(_, _)
\* tokensToSwap.filter(...), from position i on
FilterProcessable(tokens, i) ==
    IF i > Len(tokens) THEN <<>>
    ELSE (IF IsProcessable(tokens[i].token)
          THEN <<[entry |-> i, token |-> tokens[i].token, amount |-> tokens[i].amount]>>
          ELSE <<>>) \o FilterProcessable(tokens, i + 1)

\* one element of apiCallPromises up to its first network wait.  A throw of
\* parseUnits or of apiCallWithAuth (no key) is caught into an error result
\* before any fetch.  bearer is apiKey.trim(); the keys of the model have no
\* surrounding white space.
ApiCall(t, target, apiKey) ==
    LET base == [state |-> "pending", sent |-> FALSE, bearer |-> "", entry |-> t.entry,
                 token |-> t.token, amount |-> t.amount, amountIn |-> 0,
                 tokenOut |-> target.address, error |-> "", errorStatus |-> 0,
                 errorText |-> "", body |-> NoBody]
    IN  IF ParseUnitsThrows(t.amount, DecimalsOrDefault(t.token))
        THEN [base EXCEPT !.state = "settled", !.error = "invalid amount"]
        ELSE IF apiKey = ""
        THEN [base EXCEPT !.state = "settled", !.error = "API key not set",
                          !.amountIn = ParseUnits(t.amount, DecimalsOrDefault(t.token))]
        ELSE [base EXCEPT !.sent = TRUE, !.bearer = apiKey,
                          !.amountIn = ParseUnits(t.amount, DecimalsOrDefault(t.token))]

\* whether the quote answer is turned into an error result
ResponseRejected(resp) == resp.kind # "ok" \/ ~resp.data.hasTx

\* apiCallWithAuth's new Error(`API error: ${response.status}
\* ${response.statusText} - ${errorDetails}`), kept as the parts of its message
ApiError(resp) == [message |-> "API error", status |-> resp.status, text |-> resp.text]

\* the same element after its fetch has settled with resp: the promise is
\* fulfilled either way, with { token, amountIn, quoteResponse } or
\* { token, amountIn: null, error }
ApiCallSettled(call, resp) ==
    IF ResponseRejected(resp)
    THEN [call EXCEPT !.state = "settled",
                      !.error = IF resp.kind = "neterr" THEN "fetch failed"
                                ELSE IF resp.kind = "http" THEN ApiError(resp).message
                                ELSE "no transaction data",
                      !.errorStatus = IF resp.kind = "http" THEN ApiError(resp).status ELSE 0,
                      !.errorText = IF resp.kind = "http" THEN ApiError(resp).text ELSE ""]
    ELSE [call EXCEPT !.state = "settled", !.body = resp.data]

AllSettled(calls) == \A i \in DOMAIN calls : calls[i].state = "settled"

\* ethers.utils.formatUnits(x, d) throws unless x is an integer string
FormatAmountThrows(out) == out.nan \/ out.frac # <<>>

\* the amount the approval transaction approves
BridgeApprovalAmount(amountIn) == MaxUint256

\* mutant: a result without router address (tx.to) is not skipped
SkipResult_ErrorsOnly(r) == r.error # ""

\* whether the loop skips the result
SkipResult(r) == r.error # "" \/ r.body.to = ""

RECURSIVE ProcessResults(_, _, _, _)
\* the loop "for (const result of results)"
ProcessResults(i, results, target, acc) ==
    IF i > Len(results) \/ acc.threw THEN acc
    ELSE LET r == results[i]
         IN  IF SkipResult(r)
             THEN ProcessResults(i + 1, results, target, acc)
             ELSE IF FormatAmountThrows(r.body.amountOut)
             THEN [acc EXCEPT !.threw = TRUE,
                              !.approvalTxs = Append(@,
                                  Tx(r.token.address, 0,
                                     ApproveData(r.body.to, BridgeApprovalAmount(r.amountIn)), r.entry))]
             ELSE ProcessResults(i + 1, results, target,
                     [acc EXCEPT
                        !.approvalTxs = Append(@,
                            Tx(r.token.address, 0,
                               ApproveData(r.body.to, BridgeApprovalAmount(r.amountIn)), r.entry)),
                        !.swapTxs = Append(@,
                            Tx(r.body.to, r.body.value, RawData(r.body.data), r.entry)),
                        !.total = @ + ParseFloat(FormatUnits(r.body.amountOut.whole,
                                                             DecimalsOrDefault(target)))])

\* mutant: the check for an empty swap list is missing
NoSwapTransactions_Unchecked(swaps) == FALSE

\* whether createSwapBundle gives up for want of swap transactions
NoSwapTransactions(swaps) == Len(swaps) = 0

\* createSwapBundle after "await Promise.all(apiCallPromises)"
FinishSwapBundle(results, target) ==
    LET acc == ProcessResults(1, results, target,
                   [approvalTxs |-> <<>>, swapTxs |-> <<>>, total |-> 0, threw |-> FALSE])
    IN  IF acc.threw THEN ErrorBundle("invalid BigNumber")
        ELSE IF NoSwapTransactions(acc.swapTxs)
        THEN ErrorBundle("Failed to create any valid swap transactions")
        ELSE [error |-> "", swapTxs |-> acc.swapTxs, approvalTxs |-> acc.approvalTxs,
              totalExpectedOutput |-> acc.total]

\* mutant: the swaps are added before the approvals
SafeTxs_SwapsFirst(b) == b.swapTxs \o b.approvalTxs

\* handleSwap's safeTxs: every approval, then every swap, each as {to, value, data}
SafeTxs(b) == b.approvalTxs \o b.swapTxs

\* initialize(provider, apiKey, signer, safeSDK); taken between calls, as the
\* key is read before createSwapBundle's await only
TbsInitialize(apiKey) ==
    /\ app = "js"
    /\ hsPc = "idle"
    /\ tbsApiKey' = apiKey
    /\ UNCHANGED <<hsPc, swapData, bundleTarget, tokensToProcess, apiCalls, bundle,
                   safeTxs, sendCount, swapStatus>>
    /\ UNCHANGED <<app, firstCall, localStorage, uiVars, sbsVars, formVars, priceVars>>

\* BeraSwapApp.handleSaveApiKey(newApiKey): the key is stored in localStorage
\* and the service is initialized with it
HandleSaveApiKey(newApiKey) ==
    /\ app = "js"
    /\ hsPc = "idle"
    /\ localStorage' = newApiKey
    /\ tbsApiKey' = newApiKey
    /\ UNCHANGED <<hsPc, swapData, bundleTarget, tokensToProcess, apiCalls, bundle,
                   safeTxs, sendCount, swapStatus>>
    /\ UNCHANGED <<app, firstCall, uiVars, sbsVars, formVars, priceVars>>

\* handleSwap from "const bundle = await createSwapBundle(...)" resumed with b
\* up to its next await (sdk.txs.send) or its end
HandleSwapResumes(b) ==
    /\ bundle' = b
    /\ IF b.error # ""
       THEN /\ hsPc' = "done"
            /\ swapStatus' = [loading |-> FALSE, success |-> FALSE,
                              error |-> "Failed to create swap bundle"]
            /\ UNCHANGED <<safeTxs, sendCount>>
       ELSE /\ hsPc' = "sending"
            /\ safeTxs' = SafeTxs(b)
            /\ sendCount' = sendCount + 1
            /\ swapStatus' = [loading |-> TRUE, success |-> FALSE, error |-> ""]

\* handleSwap(swapData, totalValueUsd, estimatedOutput, bundleOptions) with
\* safe.safeAddress = safeAddress, through createSwapBundle up to the first
\* network wait
HandleSwap(safeAddress, tokens, target) ==
    /\ app = "js"
    /\ hsPc = "idle"
    /\ safeAddress # "" /\ Len(tokens) # 0
    /\ swapData' = tokens
    /\ bundleTarget' = target
    /\ UNCHANGED tbsApiKey
    /\ LET process == FilterProcessable(tokens, 1)
           calls == [i \in 1..Len(process) |-> ApiCall(process[i], target, tbsApiKey)]
       IN  /\ tokensToProcess' = process
           /\ apiCalls' = calls
           /\ IF Len(process) = 0
              THEN HandleSwapResumes(ErrorBundle("No valid tokens to swap"))
              ELSE IF AllSettled(calls)
              THEN HandleSwapResumes(FinishSwapBundle(calls, target))
              ELSE /\ hsPc' = "awaiting"
                   /\ swapStatus' = [loading |-> TRUE, success |-> FALSE, error |-> ""]
                   /\ bundle' = NoBundle
                   /\ UNCHANGED <<safeTxs, sendCount>>
    /\ UNCHANGED <<app, firstCall, localStorage, uiVars, sbsVars, formVars, priceVars>>

\* the fetch of apiCallPromises[i] settles with resp; once every promise has
\* settled createSwapBundle returns and handleSwap goes on
ApiCallSettles(i, resp) ==
    /\ app = "js"
    /\ hsPc = "awaiting"
    /\ i \in DOMAIN apiCalls
    /\ apiCalls[i].state = "pending"
    /\ LET calls == [apiCalls EXCEPT ![i] = ApiCallSettled(@, resp)]
       IN  /\ apiCalls' = calls
           /\ IF AllSettled(calls)
              THEN HandleSwapResumes(FinishSwapBundle(calls, bundleTarget))
              ELSE UNCHANGED <<hsPc, bundle, safeTxs, sendCount, swapStatus>>
    /\ UNCHANGED <<tbsApiKey, swapData, bundleTarget, tokensToProcess>>
    /\ UNCHANGED <<app, firstCall, localStorage, uiVars, sbsVars, formVars, priceVars>>

\* sdk.txs.send settles: fulfilled (ok) or rejected.  On success handleSwap
\* also empties App.js's selectedTokens (and closes the form)
SendSettles(ok) ==
    /\ app = "js"
    /\ hsPc = "sending"
    /\ hsPc' = "done"
    /\ swapStatus' = IF ok THEN [loading |-> FALSE, success |-> TRUE, error |-> ""]
                     ELSE [loading |-> FALSE, success |-> FALSE, error |-> "Failed to execute swap"]
    /\ appSelectedTokens' = SelectionAfterSend(appSelectedTokens, ok)
    /\ UNCHANGED <<tbsApiKey, swapData, bundleTarget, tokensToProcess, apiCalls, bundle,
                   safeTxs, sendCount>>
    /\ UNCHANGED <<appApiKey, formTargetToken, runs>>
    /\ UNCHANGED <<app, firstCall, localStorage, sbsVars, formVars, priceVars>>

\* handleSwap has ended: nothing of the run is left but swapStatus
HandleSwapDropped ==
    /\ app = "js"
    /\ hsPc = "done"
    /\ hsPc' = "idle"
    /\ swapData' = <<>>
    /\ bundleTarget' = HONEY
    /\ tokensToProcess' = <<>>
    /\ apiCalls' = <<>>
    /\ bundle' = NoBundle
    /\ safeTxs' = <<>>
    /\ sendCount' = 0
    /\ UNCHANGED <<tbsApiKey, swapStatus>>
    /\ UNCHANGED <<app, firstCall, localStorage, uiVars, sbsVars, formVars, priceVars>>

-----------------------------------------------------------------------------
(* TokenBridgeService.getTokenPrice and its price cache                      *)

\* the getTokenPrice calls followed, and the last tick of the clock
MaxPriceCalls == 2
MaxTime == 4

\* this.priceExpiry (5 * 60 * 1000 ms); a tick of the clock is 150 seconds
priceExpiry == 2

\* the tokenAddress arguments: '' (none), the native token, a contract
PriceAddresses == {"", "native", "0xHONEY"}

ZeroAddress == "0x0000000000000000000000000000000000000000"

\* the address asked of the price list
TokenParam(tokenAddress) ==
    IF tokenAddress = "BERA" \/ tokenAddress = "native" THEN ZeroAddress ELSE tokenAddress

\* String.prototype.toLowerCase on the addresses of the model
ToLowerCase(a) == IF a = "0xHONEY" \/ a = "0xHoney" THEN "0xhoney" ELSE a

\* priceCache[tokenAddress]: undefined, or { price, timestamp }
NoCacheEntry == [set |-> FALSE, price |-> 0, timestamp |-> 0]

\* mutant: the entry keeps the timestamp it had
CacheEntry_StaleTimestamp(price, old, t) ==
    [set |-> TRUE, price |-> price, timestamp |-> old.timestamp]

\* the entry getTokenPrice writes over `old`: { price, timestamp: Date.now() }
CacheEntry(price, old, t) == [set |-> TRUE, price |-> price, timestamp |-> t]

\* mutant: an entry never expires
IsFresh_Always(entry, t) == entry.set

\* "this.priceCache[tokenAddress] && Date.now() - timestamp < this.priceExpiry"
IsFresh(entry, t) == entry.set /\ t - entry.timestamp < priceExpiry

(* Answers to apiCallWithAuth's fetch of /v1/prices.  ok: the JSON body, a   *)
(* list of {address, price} (isArray) or something else; price 0 stands for  *)
(* a missing price.                                                          *)
PriceItem(address, price) == [address |-> address, price |-> price]

PriceBody(isArray, items) == [isArray |-> isArray, items |-> items]

PriceResponses ==
    { [kind |-> "neterr", body |-> PriceBody(FALSE, <<>>), status |-> 0, text |-> ""],
      [kind |-> "http", body |-> PriceBody(FALSE, <<>>), status |-> 500, text |-> "internal error"],
      [kind |-> "ok", body |-> PriceBody(FALSE, <<>>), status |-> 200, text |-> ""],
      [kind |-> "ok", body |-> PriceBody(TRUE, <<PriceItem("0xHoney", 1)>>), status |-> 200, text |-> ""],
      [kind |-> "ok", body |-> PriceBody(TRUE, <<PriceItem("0xhoney", 2), PriceItem(ZeroAddress, 3)>>),
       status |-> 200, text |-> ""],
      [kind |-> "ok", body |-> PriceBody(TRUE, <<PriceItem(ZeroAddress, 4), PriceItem("0xhoney", 0)>>),
       status |-> 200, text |-> ""] }

RECURSIVE Find(_, _, _)
\* response.find(item => item.address.toLowerCase() === tokenParam.toLowerCase()),
\* from position i on; price 0 when there is none
Find(items, tokenParam, i) ==
    IF i > Len(items) THEN PriceItem("", 0)
    ELSE IF ToLowerCase(items[i].address) = ToLowerCase(tokenParam) THEN items[i]
    ELSE Find(items, tokenParam, i + 1)

\* the price getTokenPrice takes from the answer; 0: none (it returns null)
PriceFound(resp, tokenAddress) ==
    IF resp.kind = "ok" /\ resp.body.isArray
    THEN Find(resp.body.items, TokenParam(tokenAddress), 1).price
    ELSE 0

\* a getTokenPrice call: state "fetching" or "returned"; result 0 is null;
\* order: its place among the calls that wrote the cache (0: it did not);
\* doneAt: the time at which it returned
PriceCall(address, state, sent, fromCache, price, t) ==
    [address |-> address, state |-> state, sent |-> sent, fromCache |-> fromCache,
     result |-> price, order |-> 0, doneAt |-> t]

\* the writes of the cache made so far
WritesSoFar(calls) == Cardinality({c \in DOMAIN calls : calls[c].order > 0})

\* mutant: a failed price request empties the entry
CacheAfterFailure_Evicted(cache, tokenAddress) == [cache EXCEPT ![tokenAddress] = NoCacheEntry]

\* the cache after "return null": as it was
CacheAfterFailure(cache, tokenAddress) == cache

\* the clock goes on
Tick ==
    /\ app = "js"
    /\ now < MaxTime
    /\ now' = now + 1
    /\ UNCHANGED <<priceCache, priceCalls>>
    /\ UNCHANGED <<app, firstCall, localStorage, uiVars, sbsVars, formVars, tbsVars>>

\* getTokenPrice(tokenAddress) up to its return or its fetch
GetTokenPrice(tokenAddress) ==
    /\ app = "js"
    /\ Len(priceCalls) < MaxPriceCalls
    /\ IF tokenAddress = ""
       THEN /\ priceCalls' = Append(priceCalls, PriceCall(tokenAddress, "returned", FALSE, FALSE, 0, now))
            /\ UNCHANGED priceCache
       ELSE IF IsFresh(priceCache[tokenAddress], now)
       THEN /\ priceCalls' = Append(priceCalls,
                   PriceCall(tokenAddress, "returned", FALSE, TRUE, priceCache[tokenAddress].price, now))
            /\ UNCHANGED priceCache
       ELSE IF tbsApiKey = ""
       THEN /\ priceCalls' = Append(priceCalls, PriceCall(tokenAddress, "returned", FALSE, FALSE, 0, now))
            /\ priceCache' = CacheAfterFailure(priceCache, tokenAddress)
       ELSE /\ priceCalls' = Append(priceCalls, PriceCall(tokenAddress, "fetching", TRUE, FALSE, 0, 0))
            /\ UNCHANGED priceCache
    /\ UNCHANGED now
    /\ UNCHANGED <<app, firstCall, localStorage, uiVars, sbsVars, formVars, tbsVars>>

\* the fetch of getTokenPrice call c settles with resp, and the call returns
PriceFetchSettles(c, resp) ==
    /\ app = "js"
    /\ c \in DOMAIN priceCalls
    /\ priceCalls[c].state = "fetching"
    /\ LET address == priceCalls[c].address
           price == PriceFound(resp, address)
       IN  IF price # 0
           THEN /\ priceCache' = [priceCache EXCEPT ![address] = CacheEntry(price, @, now)]
                /\ priceCalls' = [priceCalls EXCEPT ![c].state = "returned", ![c].result = price,
                                                    ![c].order = WritesSoFar(priceCalls) + 1,
                                                    ![c].doneAt = now]
           ELSE /\ priceCache' = CacheAfterFailure(priceCache, address)
                /\ priceCalls' = [priceCalls EXCEPT ![c].state = "returned", ![c].result = 0,
                                                    ![c].doneAt = now]
    /\ UNCHANGED now
    /\ UNCHANGED <<app, firstCall, localStorage, uiVars, sbsVars, formVars, tbsVars>>

-----------------------------------------------------------------------------
(* App.tsx and SwapForm, the form's generateSwapQuote and handleSwap runs    *)
(* side by side.  A run is one call of generateSwapQuote or handleSwap from  *)
(* its "await prepareBundleTransactions(...)" on; its routing-service        *)
(* answers arrive together, and the value prepareBundleTransactions returns  *)
(* is computed from them as the service computes it.                         *)

\* the runs of the form followed at once
MaxRuns == 2

\* the tokens and amounts the TokenSelector passes to handleTokenSelection
\* while the form's runs are followed
UiTokens == {HONEY}
UiAmounts == {Dec(FALSE, 1, <<>>)}

\* the keys typed into the API key input
AppKeys == {"", "key1", "key2"}

\* the target tokens of the form's select
UiTargets == {BERA, HONEY}

\* the target the form sets on mount: availableTokens.find(t => t.symbol ===
\* 'BERA' || t.isNative)
DefaultTarget == BERA

\* the routing-service answers to the requests of a run
UiResponses ==
    { Response("neterr", NoQuote),
      Response("ok", QuoteData("0xRouterA", "0xcafe", Dec(FALSE, 100, <<>>))),
      Response("ok", QuoteData("0xRouterB", "0xbeef", Dec(FALSE, 7, <<>>))) }

\* prev.findIndex(item => item.token.address === token.address); 0 for -1
ExistingIndex(prev, token) ==
    IF \E i \in DOMAIN prev : prev[i].token.address = token.address
    THEN CHOOSE i \in DOMAIN prev :
            /\ prev[i].token.address = token.address
            /\ \A j \in DOMAIN prev : prev[j].token.address = token.address => i <= j
    ELSE 0

\* mutant: the token is appended whether or not it is selected already
SelectionWith_Appended(prev, token, amount) ==
    Append(prev, [token |-> token, amount |-> amount])

\* the updater of handleTokenSelection (isMax, which nothing reads, left out)
SelectionWith(prev, token, amount) ==
    LET existingIndex == ExistingIndex(prev, token)
    IN  IF existingIndex > 0
        THEN [prev EXCEPT ![existingIndex] = [token |-> token, amount |-> amount]]
        ELSE Append(prev, [token |-> token, amount |-> amount])

\* the updater of handleRemoveToken
SelectionWithout(prev, tokenAddress) ==
    SelectSeq(prev, LAMBDA item : item.token.address # tokenAddress)

\* a run at its await: the selectedTokens and targetToken of its closure, the
\* key the service holds at the call, and for handleSwap the swapQuote of its
\* closure.  live: the form instance that started it is still mounted
NewRun(who, sel, target, bearer, quote) ==
    [who |-> who, live |-> TRUE, state |-> "awaiting", sel |-> sel, target |-> target,
     bearer |-> bearer, quote |-> quote, result |-> NoResult]

\* setSwapQuote({ totalValueUsd, estimatedOutput, slippage: 0.5 }), with the
\* figures kept
DisplayedQuote(r) ==
    [set |-> TRUE, totalValueUsd |-> r.totalValueUsd, estimatedOutput |-> r.estimatedOutput]

\* what prepareBundleTransactions returns to the run once its requests were
\* answered with resps
RunResult(run, resps) ==
    IF run.bearer = "" THEN ErrorResult("API key not set")
    ELSE LET valid == FilterValid(run.sel, 1)
             quotes == StartQuotes(valid, run.target, run.bearer)
             settled == [i \in DOMAIN quotes |->
                            IF quotes[i].state = "pending"
                            THEN GetSwapQuoteSettled(quotes[i], resps[i])
                            ELSE quotes[i]]
         IN  IF NoValidTokens(valid) THEN ErrorResult("No valid swaps to execute")
             ELSE AfterAwait(valid, settled, run.target)

\* the answers the requests of run k can get, one for each valid entry
AnswersTo(k) ==
    IF k \in DOMAIN runs
    THEN [1..Len(FilterValid(runs[k].sel, 1)) -> UiResponses]
    ELSE {}

\* the sequence without its element k
RemoveAt(seq, k) == SubSeq(seq, 1, k - 1) \o SubSeq(seq, k + 1, Len(seq))

\* the runs left when the form is unmounted: a generateSwapQuote run changes
\* nothing any more and is dropped, a handleSwap run goes on to its send
Unmounted(rs) ==
    LET left == SelectSeq(rs, LAMBDA run : run.who = "handleSwap")
    IN  [i \in DOMAIN left |-> [left[i] EXCEPT !.live = FALSE]]

\* the effect "Regenerate quote when inputs change" of a form with the runs
\* rs, then generateSwapQuote up to its await
RegenerateQuote(sel, target, apiKey, sdk, bearer, rs) ==
    IF Len(sel) > 0 /\ apiKey # ""
    THEN IF sdk
         THEN /\ Len(rs) < MaxRuns
              /\ runs' = Append(rs, NewRun("generateSwapQuote", sel, target, bearer, NoSwapQuote))
              /\ loading' = TRUE
              /\ formError' = ""
              /\ UNCHANGED swapQuote
         ELSE /\ runs' = rs
              /\ UNCHANGED <<loading, formError, swapQuote>>
    ELSE /\ runs' = rs
         /\ swapQuote' = NoSwapQuote
         /\ UNCHANGED <<loading, formError>>

\* loadTokens shows App's spinner in place of the form; the form mounted
\* afterwards starts from its initial state and runs its effects
Remounted(sel, apiKey, sdk, bearer) ==
    /\ formTargetToken' = DefaultTarget
    /\ IF Len(sel) > 0 /\ apiKey # "" /\ sdk
       THEN /\ Len(Unmounted(runs)) < MaxRuns
            /\ runs' = Append(Unmounted(runs),
                              NewRun("generateSwapQuote", sel, DefaultTarget, bearer, NoSwapQuote))
            /\ loading' = TRUE
       ELSE /\ runs' = Unmounted(runs)
            /\ loading' = FALSE
    /\ formError' = ""
    /\ swapQuote' = NoSwapQuote

\* what no function of App.tsx or of the form writes
uiFrame == <<app, firstCall, localStorage, pc, selectedTokens, targetToken, validTokens,
             swapQuotes, fetchCount, result, caller, formPc, sentTxs, formSendCount,
             tbsVars, priceVars>>

\* App.handleTokenSelection(token, amount, isMax), then the form's effect
HandleTokenSelection(token, amount) ==
    /\ app = "ts"
    /\ LET sel == SelectionWith(appSelectedTokens, token, amount)
       IN  /\ Len(sel) <= MaxSel + 1
           /\ appSelectedTokens' = sel
           /\ RegenerateQuote(sel, formTargetToken, appApiKey, sbsSdk, sbsApiKey, runs)
    /\ UNCHANGED <<appApiKey, formTargetToken, sbsSdk, sbsApiKey>>
    /\ UNCHANGED uiFrame

\* App.handleRemoveToken(tokenAddress), then the form's effect
HandleRemoveToken(tokenAddress) ==
    /\ app = "ts"
    /\ LET sel == SelectionWithout(appSelectedTokens, tokenAddress)
       IN  /\ appSelectedTokens' = sel
           /\ RegenerateQuote(sel, formTargetToken, appApiKey, sbsSdk, sbsApiKey, runs)
    /\ UNCHANGED <<appApiKey, formTargetToken, sbsSdk, sbsApiKey>>
    /\ UNCHANGED uiFrame

\* handleTargetTokenChange: setTargetToken(selected), then the form's effect
HandleTargetTokenChange(target) ==
    /\ app = "ts"
    /\ target # formTargetToken
    /\ formTargetToken' = target
    /\ RegenerateQuote(appSelectedTokens, target, appApiKey, sbsSdk, sbsApiKey, runs)
    /\ UNCHANGED <<appApiKey, appSelectedTokens, sbsSdk, sbsApiKey>>
    /\ UNCHANGED uiFrame

\* the API key input's onChange: setApiKey(key); the form's effect calls
\* swapBundleService.initialize(sdk, safe.chainId, apiKey || undefined), and
\* loadTokens, which depends on apiKey, runs again
SetApiKey(key) ==
    /\ app = "ts"
    /\ key # appApiKey
    /\ appApiKey' = key
    /\ sbsSdk' = TRUE
    /\ sbsApiKey' = StoredKey(sbsApiKey, key)
    /\ Remounted(appSelectedTokens, key, TRUE, StoredKey(sbsApiKey, key))
    /\ UNCHANGED appSelectedTokens
    /\ UNCHANGED uiFrame

\* the Execute button (disabled={loading || !swapQuote || !apiKey}) runs
\* handleSwap, up to its await
ExecuteSwap ==
    /\ app = "ts"
    /\ ~loading /\ swapQuote.set /\ appApiKey # ""
    /\ IF Len(appSelectedTokens) = 0
       THEN /\ formError' = "Cannot execute swap without a valid quote"
            /\ UNCHANGED <<loading, runs>>
       ELSE /\ Len(runs) < MaxRuns
            /\ loading' = TRUE
            /\ formError' = ""
            /\ runs' = Append(runs, NewRun("handleSwap", appSelectedTokens, formTargetToken,
                                           sbsApiKey, swapQuote))
    /\ UNCHANGED <<swapQuote, appApiKey, appSelectedTokens, formTargetToken, sbsSdk, sbsApiKey>>
    /\ UNCHANGED uiFrame

\* run k's prepareBundleTransactions returns, its requests answered with
\* resps: generateSwapQuote runs to its end, handleSwap to its
\* "await sdk.txs.send({ txs: result.txs })" or to its end
RunSettles(k, resps) ==
    /\ app = "ts"
    /\ k \in DOMAIN runs
    /\ runs[k].state = "awaiting"
    /\ LET run == runs[k]
           r == RunResult(run, resps)
           ok == r.success /\ r.hasTxs
       IN  IF run.who = "generateSwapQuote"
           THEN /\ runs' = RemoveAt(runs, k)
                /\ swapQuote' = IF ok THEN DisplayedQuote(r) ELSE NoSwapQuote
                /\ formError' = IF ok THEN formError
                                ELSE IF r.error # "" THEN r.error
                                ELSE "Failed to generate swap quote"
                /\ loading' = FALSE
           ELSE IF ok
           THEN /\ runs' = [runs EXCEPT ![k].state = "sending", ![k].result = r]
                /\ UNCHANGED <<swapQuote, formError, loading>>
           ELSE /\ runs' = RemoveAt(runs, k)
                /\ formError' = IF ~run.live THEN formError
                                ELSE IF r.error # "" THEN r.error
                                ELSE "Failed to prepare transactions"
                /\ loading' = IF run.live THEN FALSE ELSE loading
                /\ UNCHANGED swapQuote
    /\ UNCHANGED <<appApiKey, appSelectedTokens, formTargetToken, sbsSdk, sbsApiKey>>
    /\ UNCHANGED uiFrame

\* the sdk.txs.send of run k settles.  Fulfilled: onSwap(swapBundle) runs
\* App.handleSwap with the selectedTokens and apiKey of the render of the
\* click (both set), which empties the selection and calls loadTokens.
\* Rejected: setError, setLoading(false)
WalletSendSettles(k, ok) ==
    /\ app = "ts"
    /\ k \in DOMAIN runs
    /\ runs[k].state = "sending"
    /\ appSelectedTokens' = SelectionAfterSend(appSelectedTokens, ok)
    /\ IF ok
       THEN /\ formTargetToken' = DefaultTarget
            /\ runs' = Unmounted(RemoveAt(runs, k))
            /\ loading' = FALSE
            /\ formError' = ""
            /\ swapQuote' = NoSwapQuote
       ELSE /\ runs' = RemoveAt(runs, k)
            /\ formError' = IF runs[k].live THEN "Unknown error executing swap" ELSE formError
            /\ loading' = IF runs[k].live THEN FALSE ELSE loading
            /\ UNCHANGED <<formTargetToken, swapQuote>>
    /\ UNCHANGED <<appApiKey, sbsSdk, sbsApiKey>>
    /\ UNCHANGED uiFrame

\* App.js: a click on a token card adds the token to selectedTokens or takes
\* it out (the swap form, while shown, covers the cards)
ToggleToken(token) ==
    /\ app = "js" /\ hsPc = "idle"
    /\ IF \E i \in DOMAIN appSelectedTokens : appSelectedTokens[i] = token
       THEN appSelectedTokens' = SelectSeq(appSelectedTokens, LAMBDA t : t # token)
       ELSE /\ Len(appSelectedTokens) < MaxSel
            /\ appSelectedTokens' = Append(appSelectedTokens, token)
    /\ UNCHANGED <<appApiKey, formTargetToken, runs>>
    /\ UNCHANGED <<app, firstCall, localStorage, sbsVars, formVars, tbsVars, priceVars>>

\* the amounts SwapForm.js takes as valid
SwapAmounts == {Dec(FALSE, 1, <<>>), Dec(FALSE, 1, <<2, 5>>)}

RECURSIVE SwapDataFrom(_, _, _, _)
\* selectedTokens.filter(...isValid).map(token => ({...token, amount})), from
\* position i on, for the positions `valid` and the amounts entered
SwapDataFrom(sel, valid, amounts, i) ==
    IF i > Len(sel) THEN <<>>
    ELSE (IF i \in valid THEN <<[token |-> sel[i], amount |-> amounts[i]]>> ELSE <<>>)
         \o SwapDataFrom(sel, valid, amounts, i + 1)

\* the swapData SwapForm.js builds of the selection: the tokens with a valid
\* amount, in the order of the selection, each with its amount
SwapDataOf(sel) ==
    {SwapDataFrom(sel, valid, amounts, 1) :
        valid \in SUBSET DOMAIN sel, amounts \in [DOMAIN sel -> SwapAmounts]}

-----------------------------------------------------------------------------

Init ==
    /\ app \in {"ts", "js"}
    /\ firstCall = NoCall
    /\ localStorage = ""
    /\ appApiKey = ""
    /\ appSelectedTokens = <<>>
    /\ formTargetToken = DefaultTarget
    /\ runs = <<>>
    /\ sbsSdk = FALSE
    /\ sbsApiKey = ""
    /\ pc = "idle"
    /\ selectedTokens = <<>>
    /\ targetToken = HONEY
    /\ validTokens = <<>>
    /\ swapQuotes = <<>>
    /\ fetchCount = 0
    /\ result = NoResult
    /\ caller = "none"
    /\ formPc = "idle"
    /\ loading = FALSE
    /\ formError = ""
    /\ swapQuote = NoSwapQuote
    /\ sentTxs = <<>>
    /\ formSendCount = 0
    /\ tbsApiKey = ""
    /\ hsPc = "idle"
    /\ swapData = <<>>
    /\ bundleTarget = HONEY
    /\ tokensToProcess = <<>>
    /\ apiCalls = <<>>
    /\ bundle = NoBundle
    /\ safeTxs = <<>>
    /\ sendCount = 0
    /\ swapStatus = InitialSwapStatus
    /\ now = 0
    /\ priceCache = [a \in PriceAddresses |-> NoCacheEntry]
    /\ priceCalls = <<>>

\* the effect of SwapForm runs generateSwapQuote
CallGenerateSwapQuote ==
    /\ app = "ts" /\ pc = "idle" /\ formPc = "idle"
    /\ \E sel \in Selections, target \in TargetTokens :
           GenerateSwapQuote(sel, target)

\* the swap button of SwapForm runs handleSwap
CallSwapFormHandleSwap ==
    /\ app = "ts" /\ pc = "idle" /\ formPc = "idle"
    /\ \E sel \in Selections, target \in TargetTokens :
           SwapFormHandleSwap(sel, target)

\* the SwapForm component of App.js calls onSwap, which is handleSwap
CallHandleSwap ==
    /\ app = "js" /\ hsPc = "idle"
    /\ \E safeAddress \in SafeAddresses, tokens \in Selections, target \in TargetTokens :
           HandleSwap(safeAddress, tokens, target)

Next ==
    \/ \E sdk \in BOOLEAN, key \in ApiKeys : SbsInitialize(sdk, key)
    \/ CallGenerateSwapQuote
    \/ SwapQuoteCleared
    \/ CallSwapFormHandleSwap
    \/ \E ok \in BOOLEAN : SwapFormSendSettles(ok)
    \/ \E i \in 1..MaxSel, resp \in SwapResponses : QuoteSettles(i, resp)
    \/ SbsCallDropped
    \/ \E key \in ApiKeys : TbsInitialize(key)
    \/ CallHandleSwap
    \/ \E i \in 1..MaxSel, resp \in BridgeResponses : ApiCallSettles(i, resp)
    \/ \E ok \in BOOLEAN : SendSettles(ok)
    \/ HandleSwapDropped

Spec == Init /\ [][Next]_vars

\* The price cache of TokenBridgeService, as loadTokenBalances of App.js uses
\* it: getTokenPrice calls, side by side, on a running clock
PriceInit == Init /\ app = "js"

PriceNext ==
    \/ \E key \in ApiKeys : TbsInitialize(key)
    \/ Tick
    \/ \E a \in PriceAddresses : GetTokenPrice(a)
    \/ \E c \in 1..MaxPriceCalls, resp \in PriceResponses : PriceFetchSettles(c, resp)

PriceSpec == PriceInit /\ [][PriceNext]_vars

\* prepareBundleTransactions called a second time with the arguments of a
\* remembered call
CallAgain ==
    /\ app = "ts" /\ pc = "idle" /\ formPc = "idle"
    /\ firstCall.set
    /\ GenerateSwapQuote(firstCall.selectedTokens, firstCall.targetToken)

CallFirst ==
    /\ ~firstCall.set
    /\ CallGenerateSwapQuote

\* Two calls of the service with the same arguments, one after the other
RepeatInit == Init /\ app = "ts"

RepeatNext ==
    \/ \E sdk \in BOOLEAN, key \in ApiKeys : SbsInitialize(sdk, key)
    \/ CallFirst
    \/ CallAgain
    \/ \E i \in 1..MaxSel, resp \in SwapResponses : QuoteSettles(i, resp)
    \/ SbsCallDropped
    \/ SbsCallRemembered

RepeatSpec == RepeatInit /\ [][RepeatNext]_vars

\* the effect of SwapForm runs generateSwapQuote on a selection of tokens
\* with the symbol BERA
CallWithBeraTokens ==
    /\ app = "ts" /\ pc = "idle" /\ formPc = "idle"
    /\ \E sel \in NativeSelections, target \in TargetTokens :
           GenerateSwapQuote(sel, target)

\* The service called with the native asset and with a token of its symbol
NativeInit == Init /\ app = "ts"

NativeNext ==
    \/ \E sdk \in BOOLEAN, key \in ApiKeys : SbsInitialize(sdk, key)
    \/ CallWithBeraTokens
    \/ \E i \in 1..MaxSel, resp \in SwapResponses : QuoteSettles(i, resp)
    \/ SbsCallDropped

NativeSpec == NativeInit /\ [][NativeNext]_vars

\* the swap form of App.js calls onSwap with the swapData of the selection
CallHandleSwapOfSelection ==
    /\ app = "js" /\ hsPc = "idle"
    /\ \E safeAddress \in SafeAddresses, tokens \in SwapDataOf(appSelectedTokens),
          target \in TargetTokens :
           HandleSwap(safeAddress, tokens, target)

\* The two entry applications with their selection lists: App.tsx with the
\* runs of its swap form, App.js with its handleSwap
UiInit == Init

UiNext ==
    \/ \E token \in UiTokens, amount \in UiAmounts : HandleTokenSelection(token, amount)
    \/ \E token \in UiTokens : HandleRemoveToken(token.address)
    \/ \E target \in UiTargets : HandleTargetTokenChange(target)
    \/ \E key \in AppKeys : SetApiKey(key)
    \/ ExecuteSwap
    \/ \E k \in 1..MaxRuns : \E resps \in AnswersTo(k) : RunSettles(k, resps)
    \/ \E k \in 1..MaxRuns, ok \in BOOLEAN : WalletSendSettles(k, ok)
    \/ \E key \in ApiKeys : TbsInitialize(key)
    \/ \E key \in ApiKeys : HandleSaveApiKey(key)
    \/ \E token \in SourceTokens : ToggleToken(token)
    \/ CallHandleSwapOfSelection
    \/ \E i \in 1..MaxSel, resp \in BridgeResponses : ApiCallSettles(i, resp)
    \/ \E ok \in BOOLEAN : SendSettles(ok)
    \/ HandleSwapDropped

UiSpec == UiInit /\ [][UiNext]_vars

\* The selection list of App.tsx while no API key is entered (the form's
\* effect then starts no run), over every token and amount
SelectInit == Init /\ app = "ts"

SelectNext ==
    \/ \E token \in SourceTokens, amount \in Amounts : HandleTokenSelection(token, amount)
    \/ \E token \in SourceTokens : HandleRemoveToken(token.address)

SelectSpec == SelectInit /\ [][SelectNext]_vars

-----------------------------------------------------------------------------
(* Vocabulary of the properties                                              *)

\* prepareBundleTransactions has returned
Returned == app = "ts" /\ pc = "returned"

\* createSwapBundle has returned to handleSwap
BundleReturned == app = "js" /\ hsPc \in {"sending", "done"}

\* the index in validTokens / swapQuotes of the selection at position e
QuoteIndexOf(e) == CHOOSE i \in DOMAIN validTokens : validTokens[i].entry = e

\* the index in apiCalls of the token at position e of swapData
ApiCallIndexOf(e) == CHOOSE i \in DOMAIN apiCalls : apiCalls[i].entry = e

\* the amount is zero or negative
NonPositive(s) == s.neg \/ (s.whole = 0 /\ \A i \in DOMAIN s.frac : s.frac[i] = 0)

\* u is the decimal amount s in smallest units of an asset with d decimals:
\* u / 10^d = s
IsInSmallestUnits(u, s, d) ==
    LET n == Len(s.frac)
    IN  u * Pow10(n) = (s.whole * Pow10(n) + FracUnits(s.frac, n, 1)) * Pow10(d)

\* a quote as the routing service is specified to answer: router, payload
\* and an output amount that reads at the target's precision
WellFormedQuote(q, target) ==
    /\ q.routerAddress # ""
    /\ q.calldata # ""
    /\ ~ParseUnitsThrows(q.outputAmount, target.decimals)

\* the quote request of validTokens[i] succeeded
QuoteSucceeded(i) ==
    swapQuotes[i].state = "fulfilled" /\ WellFormedQuote(swapQuotes[i].quote, targetToken)

\* the quote request of validTokens[i] was sent and failed
QuoteFailed(i) == swapQuotes[i].sent /\ swapQuotes[i].state = "rejected"

\* the positions of txs that hold a transaction built for selection e
PositionsOf(txs, e) == {k \in DOMAIN txs : txs[k].entry = e}

RECURSIVE SumTo(_, _)
\* f[1] + ... + f[n]
SumTo(f, n) == IF n = 0 THEN 0 ELSE f[n] + SumTo(f, n - 1)

\* the operations a selection needs: grant and swap, or the swap alone
OperationsNeeded(token) == IF token.isNative THEN 1 ELSE 2

-----------------------------------------------------------------------------
(* C1  Partial failure.  When, in one prepareBundleTransactions call, at     *)
(* least one quote request has failed and at least one has succeeded (and    *)
(* all have settled), the call has returned success, and its transactions    *)
(* are those of exactly the selections whose quote succeeded.                *)
C1_PartialFailureKeepsSucceeded ==
    ( /\ Returned
      /\ \A i \in DOMAIN swapQuotes : QuoteSucceeded(i) \/ QuoteFailed(i)
      /\ \E i \in DOMAIN swapQuotes : QuoteSucceeded(i)
      /\ \E i \in DOMAIN swapQuotes : QuoteFailed(i) )
    => /\ result.success
       /\ {result.txs[k].entry : k \in DOMAIN result.txs}
            = {validTokens[i].entry : i \in {j \in DOMAIN swapQuotes : QuoteSucceeded(j)}}

(* C2  Join-all.  A call has not returned (and built nothing) while one of  *)
(* the quote requests it issued is still outstanding: in                     *)
(* prepareBundleTransactions and in createSwapBundle alike.                  *)
C2_ReturnsOnlyAfterAllSettled ==
    /\ (Returned /\ \A i \in DOMAIN swapQuotes : swapQuotes[i].sent)
          => \A i \in DOMAIN swapQuotes : swapQuotes[i].state # "pending"
    /\ BundleReturned => \A i \in DOMAIN apiCalls : apiCalls[i].state # "pending"

(* C3  Every success result holds at least one swap transaction: the txs of *)
(* prepareBundleTransactions, the swapTxs of createSwapBundle and the list  *)
(* handleSwap sends.                                                         *)
C3_SuccessHasSwap ==
    /\ (Returned /\ result.success)
          => \E k \in DOMAIN result.txs : IsSwap(result.txs[k])
    /\ (BundleReturned /\ bundle.error = "")
          => /\ \E k \in DOMAIN bundle.swapTxs : IsSwap(bundle.swapTxs[k])
             /\ \E k \in DOMAIN safeTxs : IsSwap(safeTxs[k])

\* a success result that holds a grant and a swap
C3_Witness ==
    /\ Returned /\ result.success
    /\ \E k \in DOMAIN result.txs : IsGrant(result.txs[k])
    /\ \E k \in DOMAIN result.txs : IsSwap(result.txs[k])

(* C4  Exact-amount permission grant.  Every approval transaction a bundle  *)
(* builder emits is addressed to the source asset, names the quote's router *)
(* as spender and approves exactly the swapped amount in smallest units,    *)
(* never MaxUint256: in the txs of prepareBundleTransactions and in the     *)
(* approvalTxs of createSwapBundle.                                         *)
C4_GrantsAreExact ==
    /\ (Returned /\ result.success) =>
          \A k \in DOMAIN result.txs :
             IsGrant(result.txs[k]) =>
                LET tx == result.txs[k]
                    i == QuoteIndexOf(tx.entry)
                IN  /\ tx.to = validTokens[i].token.address
                    /\ tx.data.spender = swapQuotes[i].quote.routerAddress
                    /\ ~tx.data.amount.max
                    /\ IsInSmallestUnits(tx.data.amount.units, validTokens[i].amount,
                                         validTokens[i].token.decimals)
    /\ BundleReturned =>
          \A k \in DOMAIN bundle.approvalTxs :
             LET tx == bundle.approvalTxs[k]
                 i == ApiCallIndexOf(tx.entry)
             IN  /\ tx.to = apiCalls[i].token.address
                 /\ tx.data.spender = apiCalls[i].body.to
                 /\ ~tx.data.amount.max
                 /\ IsInSmallestUnits(tx.data.amount.units, apiCalls[i].amount,
                                      apiCalls[i].token.decimals)

\* every quote request of the call was sent and answered with a well-formed
\* quote, and there is at least one
EveryQuoteSucceeded ==
    /\ Len(swapQuotes) > 0
    /\ \A i \in DOMAIN swapQuotes : QuoteSucceeded(i)

\* the transactions of selection i lie before those of selection j for i < j
InSelectionOrder(txs) ==
    \A k, m \in DOMAIN txs : k < m => txs[k].entry <= txs[m].entry

(* C5 as stated.  When every quote succeeds the call returns a list whose   *)
(* length is the sum over ALL selections of (2 if non-native, 1 if native), *)
(* in selection order.                                                       *)
C5_LengthOverAllSelections ==
    (Returned /\ EveryQuoteSucceeded) =>
        /\ result.success
        /\ Len(result.txs)
             = SumTo([i \in DOMAIN selectedTokens |->
                         OperationsNeeded(selectedTokens[i].token)], Len(selectedTokens))
        /\ InSelectionOrder(result.txs)

(* C5 amended.  When every quote succeeds the call returns a list whose     *)
(* length is the sum over the selections with a positive amount of (2 if    *)
(* non-native, 1 if native); a selection with a zero or negative amount     *)
(* adds nothing; the transactions are in selection order.                   *)
C5_LengthOverPositiveSelections ==
    (Returned /\ EveryQuoteSucceeded) =>
        /\ result.success
        /\ Len(result.txs)
             = SumTo([i \in DOMAIN selectedTokens |->
                         IF NonPositive(selectedTokens[i].amount) THEN 0
                         ELSE OperationsNeeded(selectedTokens[i].token)],
                     Len(selectedTokens))
        /\ \A i \in DOMAIN selectedTokens :
              Cardinality(PositionsOf(result.txs, i))
                 = IF NonPositive(selectedTokens[i].amount) THEN 0
                   ELSE OperationsNeeded(selectedTokens[i].token)
        /\ InSelectionOrder(result.txs)

\* every quote succeeded for a list that holds a selection with a zero or
\* negative amount next to a non-native one with a positive amount
C5_Witness ==
    /\ Returned /\ EveryQuoteSucceeded /\ result.success
    /\ \E i \in DOMAIN selectedTokens : NonPositive(selectedTokens[i].amount)
    /\ \E i \in DOMAIN validTokens : ~validTokens[i].token.isNative
    /\ Len(result.txs) = 2

(* C6  Grant before swap.  In every list handed to the wallet (the txs of   *)
(* prepareBundleTransactions, the safeTxs of handleSwap), the grant of a    *)
(* selection lies before the swap of the same selection, and a grant has    *)
(* such a swap.                                                              *)
GrantBeforeSwap(txs) ==
    \A k \in DOMAIN txs :
       IsGrant(txs[k]) =>
          /\ \E m \in DOMAIN txs : IsSwap(txs[m]) /\ txs[m].entry = txs[k].entry
          /\ \A m \in DOMAIN txs :
                (IsSwap(txs[m]) /\ txs[m].entry = txs[k].entry) => k < m

C6_GrantBeforeSwap ==
    /\ (Returned /\ result.success) => GrantBeforeSwap(result.txs)
    /\ (app = "js" /\ sendCount > 0) => GrantBeforeSwap(safeTxs)

\* handleSwap has sent two grants and two swaps
C6_Witness ==
    /\ app = "js" /\ sendCount > 0
    /\ Len(safeTxs) = 4

(* C7  Native-asset handling.  In a success result a native selection has   *)
(* exactly one transaction: a swap to its quote's router whose value is the *)
(* input amount in smallest units; a non-native selection's swap has value  *)
(* zero.                                                                     *)
C7_NativeHandling ==
    (Returned /\ result.success) =>
        \A i \in DOMAIN validTokens :
           LET v == validTokens[i]
               at == PositionsOf(result.txs, v.entry)
           IN  IF v.token.isNative
               THEN /\ Cardinality(at) = 1
                    /\ \A k \in at :
                          /\ IsSwap(result.txs[k])
                          /\ result.txs[k].to = swapQuotes[i].quote.routerAddress
                          /\ IsInSmallestUnits(result.txs[k].value, v.amount, v.token.decimals)
               ELSE \A k \in at : IsSwap(result.txs[k]) => result.txs[k].value = 0

\* a success result for a native selection of 1.25 and a non-native one
C7_Witness ==
    /\ Returned /\ result.success
    /\ \E i, j \in DOMAIN validTokens :
          /\ validTokens[i].token.isNative
          /\ validTokens[i].amount.frac # <<>>
          /\ ~validTokens[j].token.isNative
    /\ \E k \in DOMAIN result.txs : result.txs[k].value = 125

(* C8  Empty input.  When every selection has a zero or negative amount, or *)
(* the list is empty, the call returns an error and has made no quote       *)
(* request.                                                                  *)
C8_EmptyInputNoRequests ==
    (Returned /\ \A i \in DOMAIN selectedTokens : NonPositive(selectedTokens[i].amount))
       => /\ ~result.success
          /\ result.error # ""
          /\ fetchCount = 0
          /\ \A i \in DOMAIN swapQuotes : ~swapQuotes[i].sent

\* an initialized service was called with zero and negative amounts only
C8_Witness ==
    /\ Returned /\ sbsSdk /\ sbsApiKey # ""
    /\ Len(selectedTokens) = 2
    /\ \A i \in DOMAIN selectedTokens : NonPositive(selectedTokens[i].amount)
    /\ result.error = "No valid swaps to execute"

(* C9  Total failure.  When every quote request of a call has failed, the   *)
(* call returns an error and no transaction: prepareBundleTransactions      *)
(* returns no txs, createSwapBundle returns empty lists and nothing is      *)
(* sent.                                                                     *)
C9_TotalFailure ==
    /\ ( /\ Returned
         /\ Len(swapQuotes) > 0
         /\ \A i \in DOMAIN swapQuotes : swapQuotes[i].state = "rejected" )
       => /\ ~result.success
          /\ result.error # ""
          /\ ~result.hasTxs /\ result.txs = <<>>
    /\ ( /\ BundleReturned
         /\ Len(apiCalls) > 0
         /\ \A i \in DOMAIN apiCalls : apiCalls[i].error # "" )
       => /\ bundle.error # ""
          /\ bundle.swapTxs = <<>> /\ bundle.approvalTxs = <<>>
          /\ sendCount = 0

\* two requests of createSwapBundle were sent and both failed
C9_Witness ==
    /\ BundleReturned
    /\ Len(apiCalls) = 2
    /\ \A i \in DOMAIN apiCalls : apiCalls[i].sent /\ apiCalls[i].error # ""

(* C10  estimatedOutput is the sum of the quotes' expected output amounts,  *)
(* each a count of the target's smallest units, converted to human units    *)
(* with the target's decimals: in smallest units it equals that sum (one    *)
(* quote of 100 at precision 2 gives 1.00).                                  *)
C10_EstimatedOutputInHumanUnits ==
    ( /\ Returned /\ result.success
      /\ \A i \in DOMAIN swapQuotes : swapQuotes[i].quote.outputAmount.frac = <<>> )
    => IsInSmallestUnits(
          SumTo([i \in DOMAIN swapQuotes |-> swapQuotes[i].quote.outputAmount.whole],
                Len(swapQuotes)),
          result.estimatedOutput, targetToken.decimals)

\* every per-token record the value returned by createSwapBundle holds: the
\* elements of swapTxs and of approvalTxs (its other fields are safeAddress
\* and the two totals)
BundleRecords(b) ==
    {b.swapTxs[k] : k \in DOMAIN b.swapTxs} \cup {b.approvalTxs[k] : k \in DOMAIN b.approvalTxs}

(* C11  Diagnostics for skipped assets.  When a builder returns success     *)
(* although the quote request of some entry failed, the returned value      *)
(* holds a record for that entry (naming the asset and why it failed): in   *)
(* the txs of prepareBundleTransactions, and in what createSwapBundle       *)
(* returns.                                                                  *)
C11_SkippedAssetsAreReported ==
    /\ (Returned /\ result.success) =>
          \A i \in DOMAIN swapQuotes :
             QuoteFailed(i) => PositionsOf(result.txs, validTokens[i].entry) # {}
    /\ (BundleReturned /\ bundle.error = "") =>
          \A i \in DOMAIN apiCalls :
             (apiCalls[i].sent /\ apiCalls[i].error # "") =>
                 \E r \in BundleRecords(bundle) : r.entry = apiCalls[i].entry

(* C12  Malformed quote rejection.  A quote answer with a success status    *)
(* but without router address or call payload makes the quote fetch fail,   *)
(* and no swap transaction without target address or without call data is   *)
(* in a returned list.                                                       *)
C12_MalformedQuoteRejected ==
    /\ \A i \in DOMAIN swapQuotes :
          swapQuotes[i].state = "fulfilled" =>
             swapQuotes[i].quote.routerAddress # "" /\ swapQuotes[i].quote.calldata # ""
    /\ (Returned /\ result.success) =>
          \A k \in DOMAIN result.txs :
             IsSwap(result.txs[k]) => result.txs[k].to # "" /\ result.txs[k].data.payload # ""
    /\ (BundleReturned /\ bundle.error = "") =>
          \A k \in DOMAIN bundle.swapTxs :
             bundle.swapTxs[k].to # "" /\ bundle.swapTxs[k].data.payload # ""

\* the amount of v is expressible in smallest units of its token, as the
\* quote client requires of its input
Convertible(v) == ~ParseUnitsThrows(v.amount, v.token.decimals)

\* a request of the running call has been answered
SomeRequestSettled ==
    \E j \in DOMAIN swapQuotes : swapQuotes[j].sent /\ swapQuotes[j].state # "pending"

(* C13  Concurrent issue.  While prepareBundleTransactions waits for the    *)
(* quotes, one request has been issued for every element of validTokens     *)
(* (whose amount is expressible in the token's units); and no step issues   *)
(* a request after a request of the same call has settled.                  *)
C13_AllIssuedBeforeAnySettles ==
    /\ []( (app = "ts" /\ pc = "awaiting") =>
              \A i \in DOMAIN validTokens :
                 Convertible(validTokens[i]) =>
                    swapQuotes[i].sent /\ swapQuotes[i].requests = 1 )
    /\ [][ fetchCount' > fetchCount => ~SomeRequestSettled ]_vars

\* the call waits with two requests issued, one answered and one outstanding
C13_Witness ==
    /\ app = "ts" /\ pc = "awaiting"
    /\ Len(swapQuotes) = 2
    /\ \A i \in DOMAIN swapQuotes : swapQuotes[i].sent
    /\ \E i, j \in DOMAIN swapQuotes :
          swapQuotes[i].state = "fulfilled" /\ swapQuotes[j].state = "pending"

\* the positions of selectedTokens with a positive, expressible amount
QuotableEntries ==
    {e \in DOMAIN selectedTokens :
        ~NonPositive(selectedTokens[e].amount) /\ Convertible(selectedTokens[e])}

C15_UpstreamErrorCarriesStatusAndBody ==
    [][ /\ \A i \in 1..MaxSel, resp \in SwapResponses :
              (QuoteSettles(i, resp) /\ resp.kind = "http") =>
                  /\ swapQuotes'[i].state = "rejected"
                  /\ swapQuotes'[i].errorStatus = resp.status
                  /\ swapQuotes'[i].errorText = resp.text
                  /\ swapQuotes'[i].quote = NoQuote
        /\ \A i \in 1..MaxSel, resp \in BridgeResponses :
              (ApiCallSettles(i, resp) /\ resp.kind = "http") =>
                  /\ apiCalls'[i].error # ""
                  /\ apiCalls'[i].errorStatus = resp.status
                  /\ apiCalls'[i].errorText = resp.text
                  /\ apiCalls'[i].body = NoBody ]_vars

\* a quote request was answered with status 429 and the call has returned
C15_Witness ==
    /\ Returned
    /\ \E i \in DOMAIN swapQuotes :
          QuoteFailed(i) /\ swapQuotes[i].errorStatus = 429

\* SwapForm.handleSwap has ended or waits for the wallet
SwapFormSubmitted == app = "ts" /\ caller = "handleSwap" /\ formPc \in {"sending", "done"}

(* C16  Single-unit submission.  A run of a submit handler calls the        *)
(* wallet's send at most once, and what it passes is the whole list the     *)
(* builder returned: result.txs in SwapForm.handleSwap, every approval and  *)
(* every swap of the bundle in BeraSwapApp.handleSwap; nothing is sent      *)
(* when the builder returned an error.                                      *)
C16_SentOnceAsOneBatch ==
    /\ app = "ts" =>
          /\ formSendCount <= 1
          /\ formSendCount = 1 =>
                /\ caller = "handleSwap" /\ Returned /\ result.success
                /\ sentTxs = result.txs
          /\ (SwapFormSubmitted /\ ~result.success) =>
                formSendCount = 0 /\ sentTxs = <<>>
    /\ app = "js" =>
          /\ sendCount <= 1
          /\ sendCount = 1 =>
                /\ BundleReturned /\ bundle.error = ""
                /\ Len(safeTxs) = Len(bundle.approvalTxs) + Len(bundle.swapTxs)
                /\ \A r \in BundleRecords(bundle) : \E k \in DOMAIN safeTxs : safeTxs[k] = r
          /\ (BundleReturned /\ bundle.error # "") =>
                sendCount = 0 /\ safeTxs = <<>>

\* SwapForm.handleSwap has sent a list of four transactions in one call
C16_Witness ==
    /\ SwapFormSubmitted
    /\ formSendCount = 1
    /\ Len(sentTxs) = 4

\* the getTokenPrice call started last
LastPriceCall(calls) == calls[Len(calls)]

(* C17  Cache freshness.  A getTokenPrice call for an address whose price   *)
(* was stored at time T returns that price from the cache, without a        *)
(* request, when made before T + priceExpiry; made after T + priceExpiry it *)
(* does not answer from the cache: it sends a price request (or, without a  *)
(* key, returns null).                                                       *)
C17_CacheFreshness ==
    [][ \A a \in PriceAddresses :
          (GetTokenPrice(a) /\ a # "" /\ priceCache[a].set) =>
             LET entry == priceCache[a]
                 call == LastPriceCall(priceCalls')
             IN  /\ now < entry.timestamp + priceExpiry =>
                       /\ call.state = "returned" /\ call.fromCache /\ ~call.sent
                       /\ call.result = entry.price
                 /\ now > entry.timestamp + priceExpiry =>
                       /\ ~call.fromCache
                       /\ IF tbsApiKey # "" THEN call.sent /\ call.state = "fetching"
                                            ELSE call.state = "returned" /\ call.result = 0 ]_vars

\* a price written by one call was returned from the cache to a later call,
\* one tick after it was stored
C17_Witness ==
    /\ Len(priceCalls) = 2
    /\ priceCalls[1].order = 1
    /\ priceCalls[2].fromCache
    /\ priceCalls[2].address = priceCalls[1].address
    /\ priceCalls[2].result = priceCalls[1].result
    /\ priceCalls[2].doneAt = priceCalls[1].doneAt + 1

\* the calls for address a that wrote the cache
Writers(a) == {c \in DOMAIN priceCalls : priceCalls[c].address = a /\ priceCalls[c].order > 0}

(* C18  Last write wins.  At every moment the cache entry of an address is  *)
(* exactly what the getTokenPrice call that completed its fetch last for    *)
(* that address wrote, its price and the time of its completion; without    *)
(* such a call there is no entry.                                           *)
C18_LastWriteWins ==
    \A a \in PriceAddresses :
       IF Writers(a) = {} THEN priceCache[a] = NoCacheEntry
       ELSE LET last == CHOOSE c \in Writers(a) :
                           \A d \in Writers(a) : priceCalls[d].order <= priceCalls[c].order
            IN  /\ priceCache[a].set
                /\ priceCache[a].price = priceCalls[last].result
                /\ priceCache[a].timestamp = priceCalls[last].doneAt

\* two calls for one address were in flight together; the one started second
\* completed first, and they wrote different prices at different times
C18_Witness ==
    /\ Len(priceCalls) = 2
    /\ priceCalls[1].address = priceCalls[2].address
    /\ priceCalls[1].sent /\ priceCalls[2].sent
    /\ priceCalls[2].order = 1 /\ priceCalls[1].order = 2
    /\ priceCalls[1].result # priceCalls[2].result
    /\ priceCalls[1].doneAt > priceCalls[2].doneAt

\* the answer resp has an entry for the token asked by tokenAddress
HasEntryFor(resp, tokenAddress) ==
    /\ resp.kind = "ok" /\ resp.body.isArray
    /\ \E k \in DOMAIN resp.body.items :
          ToLowerCase(resp.body.items[k].address) = ToLowerCase(TokenParam(tokenAddress))

(* C19  Price-service failure degrades to no price.  When the price request *)
(* fails (no key, network error, non-success status) or the answer has no   *)
(* entry for the asset, getTokenPrice returns null and the cache is left    *)
(* as it was, every entry of it.                                            *)
C19_FailureReturnsNull ==
    [][ /\ \A c \in 1..MaxPriceCalls, resp \in PriceResponses :
              (PriceFetchSettles(c, resp) /\ ~HasEntryFor(resp, priceCalls[c].address)) =>
                  /\ priceCalls'[c].state = "returned"
                  /\ priceCalls'[c].result = 0
                  /\ priceCache' = priceCache
        /\ \A a \in PriceAddresses :
              (GetTokenPrice(a) /\ tbsApiKey = "" /\ ~LastPriceCall(priceCalls').fromCache) =>
                  /\ LastPriceCall(priceCalls').state = "returned"
                  /\ LastPriceCall(priceCalls').result = 0
                  /\ priceCache' = priceCache ]_vars

\* a price request failed while the cache held an expired entry for the
\* address, and the entry is still there
C19_Witness ==
    /\ Len(priceCalls) = 2
    /\ priceCalls[1].order = 1
    /\ priceCalls[2].address = priceCalls[1].address
    /\ priceCalls[2].sent /\ priceCalls[2].state = "returned" /\ priceCalls[2].result = 0
    /\ priceCalls[2].doneAt > priceCalls[1].doneAt + priceExpiry
    /\ priceCache[priceCalls[1].address].set

\* the largest amount of the selections, in units of 10^-FloatDigits
MaxAmountUnits == 2 * Pow10(FloatDigits)

\* amount times the last-known price of the token, in units of
\* 10^-FloatDigits; 0 for a token without price
InputValue(v) ==
    IF v.token.hasPrice
    THEN v.token.priceUsd *
            (CHOOSE u \in 0..MaxAmountUnits : IsInSmallestUnits(u, v.amount, FloatDigits))
    ELSE 0

(* C20  totalValueUsd of a success result is the sum, over the selections   *)
(* in the bundle, of amount times the token's price, a token without price  *)
(* counting 0; such a token's transactions are in the bundle, and when      *)
(* every quote has succeeded the call succeeds whatever the prices.         *)
C20_TotalInputValue ==
    /\ (Returned /\ result.success) =>
          /\ result.totalValueUsd =
                SumTo([i \in DOMAIN validTokens |-> InputValue(validTokens[i])], Len(validTokens))
          /\ \A i \in DOMAIN validTokens :
                PositionsOf(result.txs, validTokens[i].entry) # {}
    /\ (Returned /\ EveryQuoteSucceeded) => result.success

\* a success result for a token without price and a token with one
C20_Witness ==
    /\ Returned /\ result.success
    /\ Len(validTokens) = 2
    /\ ~validTokens[1].token.hasPrice
    /\ validTokens[2].token.hasPrice
    /\ validTokens[2].amount.frac # <<>>
    /\ result.totalValueUsd > 0

\* the transaction lists a and b are equal element by element: same length,
\* same to, value and data at each index
SameTransactions(a, b) ==
    /\ Len(a) = Len(b)
    /\ \A k \in DOMAIN a :
          a[k].to = b[k].to /\ a[k].value = b[k].value /\ a[k].data = b[k].data

\* the running call has the arguments of the remembered one and its requests
\* were answered as those of the remembered one
RepeatsFirstCall ==
    /\ app = "ts" /\ firstCall.set /\ pc = "returned"
    /\ selectedTokens = firstCall.selectedTokens
    /\ targetToken = firstCall.targetToken
    /\ QuoteAnswers(swapQuotes) = firstCall.quotes

C22_KeyNeverPersisted == localStorage = ""

\* the builder treated entry e of the selection as native: no grant, and the
\* swap carries the amount, in smallest units, as its value
BuiltAsNative(txs, e) ==
    /\ \A k \in PositionsOf(txs, e) : IsSwap(txs[k])
    /\ \A k \in PositionsOf(txs, e) :
          txs[k].value = ParseUnits(selectedTokens[e].amount, selectedTokens[e].token.decimals)

(* C25  Within one prepareBundleTransactions call an asset is sent to the   *)
(* routing service as tokenIn = 'native' if and only if the operation       *)
(* builder treats it as native (no PermissionGrant, Swap value = the amount *)
(* in smallest units): no asset is quoted as native and yet given an        *)
(* approval and a zero-value Swap.                                          *)
C25_NativeClassificationAgrees ==
    (Returned /\ result.success) =>
        \A i \in DOMAIN swapQuotes :
            (swapQuotes[i].tokenIn = "native") <=> BuiltAsNative(result.txs, validTokens[i].entry)

\* the entries of swapData whose result the loop of createSwapBundle keeps
KeptEntries ==
    {apiCalls[i].entry : i \in {j \in DOMAIN apiCalls :
                                    apiCalls[j].error = "" /\ apiCalls[j].body.to # ""}}

(* C29  Pairwise approval/swap lists.  Every non-error result of            *)
(* createSwapBundle has approvalTxs and swapTxs of equal, non-zero length;  *)
(* the i-th approval is addressed to the token of the i-th swap and names   *)
(* that swap's router (tx.to) as spender; a token whose request failed or   *)
(* whose response lacks tx or tx.to is in neither list, and both lists      *)
(* follow the input order of the remaining tokens.                          *)
C29_PairwiseLists ==
    (BundleReturned /\ bundle.error = "") =>
        LET swaps == bundle.swapTxs
            grants == bundle.approvalTxs
        IN  /\ Len(swaps) = Len(grants)
            /\ Len(swaps) > 0
            /\ \A i \in DOMAIN swaps :
                  /\ i \in DOMAIN grants
                  /\ IsGrant(grants[i]) /\ IsSwap(swaps[i])
                  /\ grants[i].entry = swaps[i].entry
                  /\ grants[i].to = swapData[swaps[i].entry].token.address
                  /\ grants[i].data.spender = swaps[i].to
            /\ {swaps[i].entry : i \in DOMAIN swaps} = KeptEntries
            /\ Len(swaps) = Cardinality(KeptEntries)
            /\ \A i, j \in DOMAIN swaps : i < j => swaps[i].entry < swaps[j].entry

\* two requests were sent: one failed, the other gave the one pair of the lists
C29_Witness ==
    /\ BundleReturned /\ bundle.error = ""
    /\ Len(apiCalls) = 2 /\ apiCalls[1].sent /\ apiCalls[2].sent
    /\ \E i \in DOMAIN apiCalls : apiCalls[i].error # "" \/ apiCalls[i].body.to = ""
    /\ Len(bundle.swapTxs) = 1

\* the position in the selection list sel of the entry of the address; 0: none
PositionOf(sel, address) ==
    IF \E i \in DOMAIN sel : sel[i].token.address = address
    THEN CHOOSE i \in DOMAIN sel : sel[i].token.address = address
    ELSE 0

\* the selection list holds at most one entry per asset address
UniqueAddresses(sel) ==
    \A i, j \in DOMAIN sel : sel[i].token.address = sel[j].token.address => i = j

\* handleTokenSelection(token, amount) has replaced the amount in place, or
\* appended the asset not selected before
ReplacedOrAppended(prev, new, token, amount) ==
    IF PositionOf(prev, token.address) # 0
    THEN /\ Len(new) = Len(prev)
         /\ \A i \in DOMAIN prev :
               IF i = PositionOf(prev, token.address)
               THEN new[i].token = token /\ new[i].amount = amount
               ELSE new[i] = prev[i]
    ELSE /\ Len(new) = Len(prev) + 1
         /\ \A i \in DOMAIN prev : new[i] = prev[i]
         /\ new[Len(new)].token = token /\ new[Len(new)].amount = amount

\* handleRemoveToken(address) has deleted the entry of the address and no
\* other, the rest keeping its relative order
RemovedOnly(prev, new, address) ==
    /\ \A i \in DOMAIN new : new[i].token.address # address
    /\ \A i \in DOMAIN prev :
          prev[i].token.address # address =>
              \E k \in DOMAIN new : new[k] = prev[i]
    /\ Len(new) = Cardinality({i \in DOMAIN prev : prev[i].token.address # address})
    /\ \A k, m \in DOMAIN new :
          k < m => PositionOf(prev, new[k].token.address) < PositionOf(prev, new[m].token.address)

(* C23  Selection uniqueness.  After any sequence of handleTokenSelection   *)
(* and handleRemoveToken calls the selection list of App holds at most one  *)
(* entry per asset address; selecting an asset already selected replaces    *)
(* that entry's amount in place (position and other entries unchanged), and *)
(* removing an asset deletes that asset's entry alone, the rest keeping its *)
(* relative order.                                                          *)
C23_SelectionUniqueness ==
    /\ [](UniqueAddresses(appSelectedTokens))
    /\ [][ /\ \A token \in SourceTokens, amount \in Amounts :
                HandleTokenSelection(token, amount) =>
                    ReplacedOrAppended(appSelectedTokens, appSelectedTokens', token, amount)
           /\ \A token \in SourceTokens :
                HandleRemoveToken(token.address) =>
                    RemovedOnly(appSelectedTokens, appSelectedTokens', token.address) ]_vars

\* three assets are selected, the first with the amount 1.25
C23_Witness ==
    /\ app = "ts"
    /\ Len(appSelectedTokens) = 3
    /\ appSelectedTokens[1].amount = Dec(FALSE, 1, <<2, 5>>)

(* C24  The selection list is emptied when the wallet send of a bundle has  *)
(* completed successfully; when the assembly returns (an error or a list)   *)
(* or the wallet send fails, the selection list is left as it is (onSwap is *)
(* not invoked).  For the swap form of App.tsx and for handleSwap of App.js.*)
C24_ClearedBySubmittedBundleOnly ==
    [][ /\ \A k \in 1..MaxRuns :
             /\ WalletSendSettles(k, TRUE) => appSelectedTokens' = <<>>
             /\ WalletSendSettles(k, FALSE) => appSelectedTokens' = appSelectedTokens
             /\ \A resps \in AnswersTo(k) :
                   RunSettles(k, resps) => appSelectedTokens' = appSelectedTokens
        /\ SendSettles(TRUE) => appSelectedTokens' = <<>>
        /\ SendSettles(FALSE) => appSelectedTokens' = appSelectedTokens
        /\ \A i \in 1..MaxSel, resp \in BridgeResponses :
              ApiCallSettles(i, resp) => appSelectedTokens' = appSelectedTokens
        /\ CallHandleSwapOfSelection => appSelectedTokens' = appSelectedTokens ]_vars

\* App.js has sent the bundle of a selection of two tokens and the selection
\* is empty
C24_Witness ==
    /\ app = "js" /\ hsPc = "done"
    /\ swapStatus.success
    /\ Len(swapData) = 2
    /\ appSelectedTokens = <<>>

(* C26  Latest inputs win.  When generateSwapQuote runs of the swap form    *)
(* overlap (the selection or the target asset changes while an earlier run  *)
(* waits for its quotes), the swapQuote displayed once all runs have        *)
(* finished is the one computed for the most recent selection and target    *)
(* asset: the run that finishes last and stores its result was started with *)
(* the current selection and target (for which, the selection not being     *)
(* empty, a run was started as well).                                       *)
C26_LatestInputsWin ==
    [][ \A k \in 1..MaxRuns : \A resps \in AnswersTo(k) :
           ( /\ RunSettles(k, resps)
             /\ runs[k].who = "generateSwapQuote"
             /\ runs' = <<>>
             /\ swapQuote'.set
             /\ Len(appSelectedTokens) > 0 /\ appApiKey # "" )
           => /\ runs[k].sel = appSelectedTokens
              /\ runs[k].target = formTargetToken ]_vars

\* the handleSwap runs of the mounted form that have not finished
LiveSubmissions == {k \in DOMAIN runs : runs[k].live /\ runs[k].who = "handleSwap"}

(* C27  No overlapping submission.  The loading flag of the swap form is    *)
(* true whenever a prepareBundleTransactions call or a wallet send started  *)
(* by the form is still in flight, so that a second handleSwap (and a       *)
(* second wallet send) cannot start while a first one has not finished.     *)
C27_NoOverlappingSubmission ==
    app = "ts" =>
        /\ (\E k \in DOMAIN runs : runs[k].live) => loading
        /\ Cardinality(LiveSubmissions) <= 1

(* C28  The submitted bundle matches the displayed quote.  The operation    *)
(* list the swap form sends to the wallet is built from the quotes whose    *)
(* totals (totalValueUsd, estimatedOutput) are displayed and reported to    *)
(* onSwap: the result whose txs a handleSwap run sends has the totals of    *)
(* the swapQuote of that run.                                               *)
C28_SubmittedMatchesDisplayed ==
    \A k \in DOMAIN runs :
        runs[k].state = "sending" =>
            /\ runs[k].quote.set
            /\ runs[k].quote.estimatedOutput = runs[k].result.estimatedOutput
            /\ runs[k].quote.totalValueUsd = runs[k].result.totalValueUsd

(* C30  Key retention on re-initialization.  SwapBundleService.initialize   *)
(* called without an apiKey (undefined or empty) leaves the stored key as   *)
(* it is, and called with a key stores that key: the stored key is the last *)
(* non-empty key passed.  Clearing the key in the UI does not clear it in   *)
(* the service, and the requests of prepareBundleTransactions carry the     *)
(* stored key.                                                              *)
C30_KeyRetainedOnReinitialize ==
    /\ [][ \A key \in AppKeys :
              SetApiKey(key) => sbsApiKey' = (IF key = "" THEN sbsApiKey ELSE key) ]_vars
    /\ []( app = "ts" =>
              /\ appApiKey # "" => sbsApiKey = appApiKey
              /\ \A k \in DOMAIN runs : runs[k].bearer # "" /\ runs[k].bearer \in AppKeys )

\* the key was cleared in the UI after key2 had been entered: the service
\* still holds key2, and a call made with it is in flight
C30_Witness ==
    /\ app = "ts"
    /\ appApiKey = "" /\ sbsApiKey = "key2"
    /\ Len(runs) > 0 /\ runs[1].bearer = "key2"

====
